---------------------------- MODULE Spec2Model ----------------------------
(***************************************************************************)
(* A model of FTPdLite (src/ftpdlite.py), a MicroPython FTP server, and of *)
(* its password hashing class SHA256AES (src/ftpdlite.py, src/sha256aes.py)*)
(*                                                                         *)
(* Python strings are modelled as sequences of one-character strings, so   *)
(* that startswith, split, rsplit, replace and count are computed the way  *)
(* the interpreter computes them.  Python's None is the value None below.  *)
(***************************************************************************)
EXTENDS Integers, Sequences, FiniteSets, Bags, TLC

(***************************************************************************)
(* Python string primitives used by the source.                            *)
(***************************************************************************)
None == << "<None>" >>

\* str.startswith(prefix)
StartsWith(s, p) == Len(p) <= Len(s) /\ SubSeq(s, 1, Len(p)) = p

\* str.endswith(suffix)
EndsWith(s, p) == Len(p) <= Len(s) /\ SubSeq(s, Len(s) - Len(p) + 1, Len(s)) = p

\* str.count(c) for a one-character c
Count(s, c) == Cardinality({i \in 1..Len(s) : s[i] = c})

\* str.split(c): always Count(s, c) + 1 parts, empty parts kept
RECURSIVE SplitFrom(_, _, _)
SplitFrom(s, c, start) ==
    LET hits == {i \in start..Len(s) : s[i] = c}
    IN  IF hits = {} THEN << SubSeq(s, start, Len(s)) >>
        ELSE LET i == CHOOSE i \in hits : \A j \in hits : i <= j
             IN  << SubSeq(s, start, i - 1) >> \o SplitFrom(s, c, i + 1)

Split(s, c) == SplitFrom(s, c, 1)

\* str.rsplit(c, 1)[0]: everything before the last c, or s itself without one
RSplitHead(s, c) ==
    LET hits == {i \in 1..Len(s) : s[i] = c}
    IN  IF hits = {} THEN s
        ELSE SubSeq(s, 1, (CHOOSE i \in hits : \A j \in hits : j <= i) - 1)

\* str.replace(c, r): every occurrence of the character c becomes r
RECURSIVE Replace(_, _, _)
Replace(s, c, r) ==
    IF s = << >> THEN << >>
    ELSE (IF Head(s) = c THEN r ELSE << Head(s) >>) \o Replace(Tail(s), c, r)

\* str.lstrip(c)
RECURSIVE LStrip(_, _)
LStrip(s, c) == IF s # << >> /\ Head(s) = c THEN LStrip(Tail(s), c) ELSE s

\* str.rstrip(c)
RECURSIVE RStrip(_, _)
RStrip(s, c) ==
    IF s # << >> /\ s[Len(s)] = c THEN RStrip(SubSeq(s, 1, Len(s) - 1), c) ELSE s

\* sep.join(parts)
RECURSIVE Join(_, _)
Join(parts, sep) ==
    IF parts = << >> THEN << >>
    ELSE IF Len(parts) = 1 THEN parts[1]
    ELSE parts[1] \o sep \o Join(Tail(parts), sep)

\* n copies of the character c
Repeat(c, n) == [i \in 1..n |-> c]

\* int(s) for a string of decimal digits; -1 stands for ValueError
DigitVal(c) ==
    CASE c = "0" -> 0 [] c = "1" -> 1 [] c = "2" -> 2 [] c = "3" -> 3
      [] c = "4" -> 4 [] c = "5" -> 5 [] c = "6" -> 6 [] c = "7" -> 7
      [] c = "8" -> 8 [] c = "9" -> 9 [] OTHER -> -1

RECURSIVE IntAcc(_, _)
IntAcc(s, acc) ==
    IF s = << >> THEN acc
    ELSE IF DigitVal(Head(s)) < 0 THEN -1
    ELSE IntAcc(Tail(s), acc * 10 + DigitVal(Head(s)))

ParseInt(s) == IF s = << >> THEN -1 ELSE IntAcc(s, 0)

(***************************************************************************)
(* Path resolution: FTPdLite.path_join and FTPdLite.decode_path.           *)
(***************************************************************************)
SLASH == << "/" >>

\* path_join(a, b) for the two-argument call decode_path makes; the loop
\* starts from path_result = "" and folds the arguments in.
PathJoinStep(path_result, path_component) ==
    IF EndsWith(path_result, SLASH) /\ StartsWith(path_component, SLASH)
    THEN path_result \o LStrip(path_component, "/")
    ELSE IF EndsWith(path_result, SLASH) \/ StartsWith(path_component, SLASH)
    THEN path_result \o path_component
    ELSE path_result \o SLASH \o path_component

RECURSIVE PathJoinFold(_, _)
PathJoinFold(path_result, args) ==
    IF args = << >> THEN path_result
    ELSE PathJoinFold(PathJoinStep(path_result, Head(args)), Tail(args))

path_join(args) == PathJoinFold(<< >>, args)

\* mutant of DecodeWalk: ".." is passed over as "." is
RECURSIVE DecodeWalkNoPop(_, _)
DecodeWalkNoPop(absolute_path, path_components) ==
    IF path_components = << >> THEN absolute_path
    ELSE LET c == Head(path_components)
         IN  IF c = << "." >> \/ c = << >> \/ c = << ".", "." >>
             THEN DecodeWalkNoPop(absolute_path, Tail(path_components))
             ELSE DecodeWalkNoPop(path_join(<< absolute_path, c >>), Tail(path_components))

\* the for loop of decode_path over path_components
RECURSIVE DecodeWalk(_, _)
DecodeWalk(absolute_path, path_components) ==
    IF path_components = << >> THEN absolute_path
    ELSE LET c == Head(path_components)
         IN  IF c = << "." >> \/ c = << >>
             THEN DecodeWalk(absolute_path, Tail(path_components))
             ELSE IF c = << ".", "." >>
             THEN DecodeWalk(RSplitHead(absolute_path, "/"), Tail(path_components))
             ELSE DecodeWalk(path_join(<< absolute_path, c >>), Tail(path_components))

\* mutant of decode_path: an absolute path is resolved from cwd as well
decode_path_from_cwd(path, cwd, home) ==
    LET absolute_path ==
          IF path = None \/ StartsWith(path, << "-" >>)
          THEN cwd
          ELSE LET p1 == IF StartsWith(path, << "~" >>)
                         THEN Replace(path, "~", home)
                         ELSE path
               IN  DecodeWalk(cwd, Split(p1, "/"))
    IN  IF absolute_path = << >> THEN SLASH ELSE absolute_path

\* decode_path(path, session), with the session's cwd and home passed in
decode_path(path, cwd, home) ==
    LET absolute_path ==
          IF path = None \/ StartsWith(path, << "-" >>)
          THEN cwd
          ELSE LET p1 == IF StartsWith(path, << "~" >>)
                         THEN Replace(path, "~", home)
                         ELSE path
                   start == IF StartsWith(p1, SLASH) THEN << >> ELSE cwd
               IN  DecodeWalk(start, Split(p1, "/"))
    IN  IF absolute_path = << >> THEN SLASH ELSE absolute_path

(***************************************************************************)
(* Session.has_write_access.                                               *)
(***************************************************************************)
RootUid == 0
WheelGid == 10
NobodyId == 65534

\* mutant of has_write_access: the sentinel identities are not turned away
has_write_access_no_sentinel(uid, gid, home, path) ==
    IF uid = RootUid \/ gid = WheelGid THEN TRUE
    ELSE IF home # << >> /\ StartsWith(path, home) THEN TRUE
    ELSE FALSE

has_write_access(uid, gid, home, path) ==
    IF uid = RootUid \/ gid = WheelGid THEN TRUE
    ELSE IF uid >= NobodyId \/ gid >= NobodyId THEN FALSE
    ELSE IF home # << >> /\ StartsWith(path, home) THEN TRUE
    ELSE FALSE

(***************************************************************************)
(* SHA256AES: the salted password hash.  The block cipher and the digest   *)
(* are abstract deterministic functions: a cipher block is the pair of its *)
(* key and plaintext block, and the base64 text of the digest spells the   *)
(* cipher blocks out, so that different ciphertexts have different texts.  *)
(***************************************************************************)
BlockSize == 16
SaltLength == 16

\* characters that need more than one symbol to write down
NUL == "<NUL>"
EACUTE == "<e-acute>"
NL == "\n"

method_token == << "5", "a" >>

\* bytes(c, "utf8") for one character
Utf8Char(c) ==
    CASE c = NUL -> << 0 >>
      [] c = EACUTE -> << 195, 169 >>
      [] c = "p" -> << 112 >>
      [] c = "q" -> << 113 >>
      [] c = "$" -> << 36 >>
      [] OTHER -> << 63 >>

RECURSIVE Utf8(_)
Utf8(s) == IF s = << >> THEN << >> ELSE Utf8Char(Head(s)) \o Utf8(Tail(s))

\* bytearray(n): n zero bytes
ZeroBytes(n) == [i \in 1..n |-> 0]

\* cleartext += bytearray(16 - (len(cleartext) % 16))
PadToBlock(bytes) == bytes \o ZeroBytes(BlockSize - (Len(bytes) % BlockSize))

\* aes(key, MODE_ECB).encrypt(data): block by block under the same key
AesEcbEncrypt(key, data) ==
    [k \in 1..(Len(data) \div BlockSize) |->
        [key |-> key, pt |-> SubSeq(data, (k - 1) * BlockSize + 1, k * BlockSize)]]

HexSym == << "A", "B", "C", "D", "E", "F", "G", "H",
             "I", "J", "K", "L", "M", "N", "O", "P" >>

HexText(bytes) ==
    [i \in 1..(2 * Len(bytes)) |->
        IF i % 2 = 1 THEN HexSym[(bytes[(i + 1) \div 2] \div 16) + 1]
        ELSE HexSym[(bytes[i \div 2] % 16) + 1]]

\* b2a_base64(sha256(ciphertext).digest()).decode("utf8"): ends with a newline
RECURSIVE DigestText(_)
DigestText(ct) ==
    IF ct = << >> THEN << NL >>
    ELSE Head(ct).key \o HexText(Head(ct).pt) \o DigestText(Tail(ct))

\* the exception create_salted_hash raises, or "" when it returns
create_salted_hash_error(salt, cleartext) ==
    IF Len(salt) % BlockSize # 0 THEN "AssertionError"
    ELSE IF cleartext = None THEN "TypeError"
    ELSE IF Len(salt) \notin {16, 32} THEN "ValueError"
    ELSE ""

create_salted_hash(salt, cleartext) ==
    RStrip(DigestText(AesEcbEncrypt(salt, PadToBlock(Utf8(cleartext)))), NL)

\* create_passwd_entry with the salt generate_salt(16) drew
create_passwd_entry(salt, cleartext) ==
    << "$" >> \o method_token \o << "$" >> \o salt \o << "$" >>
        \o create_salted_hash(salt, cleartext)

\* mutant of verify_passwd_entry: the digests are not compared
verify_passwd_entry_any_digest(hashed, cleartext) ==
    IF Count(hashed, "$") # 3 THEN "False" ELSE "True"

\* verify_passwd_entry: "True", "False", "None" (the function falls off its
\* end on an unsupported algorithm) or the name of the exception it raises
verify_passwd_entry(hashed, cleartext) ==
    IF Count(hashed, "$") # 3 THEN "False"
    ELSE LET parts == Split(hashed, "$")
             hash_alg == parts[2]
             salt == parts[3]
             hashed_pw == parts[4]
         IN  IF hash_alg # method_token THEN "None"
             ELSE IF create_salted_hash_error(salt, cleartext) # ""
             THEN create_salted_hash_error(salt, cleartext)
             ELSE IF hashed_pw # create_salted_hash(salt, cleartext)
             THEN "False"
             ELSE "True"

(***************************************************************************)
(* The server: FTPdLite and its Session objects.                           *)
(***************************************************************************)
VARIABLES
    credentials,            \* FTPdLite._credentials: the credential strings, in load order
    pasv_port_pool,         \* FTPdLite._pasv_port_pool
    accepting_connections,  \* FTPdLite._accepting_connections: "unset" before run()
    session_list,           \* FTPdLite._session_list: the registered sessions, in order
    session,                \* the fields of each connection's Session object
    task,                   \* where each connection's on_ctrl_connect task stands
    del_index,              \* the index i delete_session located for the session
    ctrl_open,              \* whether the connection's control stream is open
    reply,                  \* the last reply written on each control channel
    filesystem,             \* the entries of the file system: path -> "dir" | "file"
    last_mutation,          \* the last successful mkdir, rmdir, remove or open(.., "wb")
    issued,                 \* the ports get_pasv_port has returned, oldest first
    listening,              \* the bag of ports that data listeners are bound to
    fn_args,                \* arguments of the pure function under evaluation
    fn_result,              \* what that function returned
    clock,                  \* time(): seconds since the server was constructed
    last_active,            \* Session.last_active_time of each connection's session
    reaper,                 \* where the kick_stale task stands
    machine,                \* the board: file systems synced, deepsleep() or reset() called
    handlers,               \* per connection: command handlers called and not yet returned
    inbound                 \* the last connection a passive listener accepted

vars == << credentials, pasv_port_pool, accepting_connections, session_list,
           session, task, del_index, ctrl_open, reply, filesystem,
           last_mutation, issued, listening, fn_args, fn_result,
           clock, last_active, reaper, machine, handlers, inbound >>

server_vars == << credentials, pasv_port_pool, accepting_connections >>
port_vars == << issued, listening >>
fn_vars == << fn_args, fn_result >>
\* what a command handler that runs from its call to its return leaves as it was
time_vars == << clock, reaper, machine, handlers, inbound >>

\* ---- bounds of the model ----
MaxSessions == 2        \* connections that can be open at once
MaxCredentials == 2     \* credential strings loaded before run()
PoolSize == 3           \* ports in the passive port pool
MaxIssued == 7          \* get_pasv_port calls followed

\* ---- program constants ----
PasvPortBase == 49152
MaxConnections == 10
ThrottleMs == 1000
DataWaitMs == 200
SweepSeconds == 60
IdleTimeoutDefault == 60

Slots == 1..MaxSessions

\* client addresses; each begins with a digit, as a dotted quad does
ClientIPs == { << "1" >>, << "2" >> }

IsDigit(c) == DigitVal(c) >= 0

\* directories present when the server starts, under one-letter names: /h,
\* the home directory of an account, and /e, a directory outside it
S_home == << "/", "h" >>
S_etc == << "/", "e" >>

S_root == << "r", "o", "o", "t" >>
S_nobody == << "n", "o", "b", "o", "d", "y" >>

\* os.getcwd() of the server process when a Session is constructed
getcwd == SLASH

\* Session.__init__
NewSession(client_ip) ==
    [ client_ip   |-> client_ip,
      username    |-> S_nobody,
      uid         |-> NobodyId,
      gid         |-> NobodyId,
      home_dir    |-> SLASH,
      working_dir |-> getcwd,
      data        |-> FALSE,    \* the data_reader and data_writer attributes exist
      listener    |-> 0 ]       \* port of the data_listener attribute, 0 without one

NoSession == NewSession(<< "0" >>)

NoReply == [ verb |-> "", code |-> 0, msg |-> "", path |-> << >>,
             slept |-> 0, cred |-> 0, preliminary |-> 0 ]

\* a reply of handler verb: status code, fixed text, quoted path, milliseconds
\* slept before it was written, the index of the credential record used, and
\* the preliminary reply the handler wrote before it (0 without one)
Reply(old, verb, code, msg, path, slept, cred) ==
    [ verb |-> verb, code |-> code, msg |-> msg, path |-> path,
      slept |-> slept, cred |-> cred, preliminary |-> 0 ]

\* the reply r, written after the handler had written the 150 line
After150(r) == [r EXCEPT !.preliminary = 150]

NoMutation == [ op |-> "", path |-> << >>, uid |-> 0, gid |-> 0, home |-> << >> ]

\* mutant of find_session: every search value is compared with the usernames
find_session_by_username(list, sess, search_value) ==
    SelectSeq(list, LAMBDA x : sess[x].username = search_value)

\* FTPdLite.find_session
find_session(list, sess, search_value) ==
    IF search_value # << >> /\ search_value # None /\ IsDigit(search_value[1])
    THEN SelectSeq(list, LAMBDA x : sess[x].client_ip = search_value)
    ELSE SelectSeq(list, LAMBDA x : sess[x].username = search_value)

\* mutant of IndexOf: a session that is absent is located at the first index
IndexOfOrFirst(list, s) ==
    IF \E i \in 1..Len(list) : list[i] = s
    THEN CHOOSE i \in 1..Len(list) : list[i] = s /\ \A j \in 1..(i - 1) : list[j] # s
    ELSE IF list = << >> THEN 0 ELSE 1

\* the loop of delete_session that locates the session: its index, 0 if absent
IndexOf(list, s) ==
    IF \E i \in 1..Len(list) : list[i] = s
    THEN CHOOSE i \in 1..Len(list) : list[i] = s /\ \A j \in 1..(i - 1) : list[j] # s
    ELSE 0

\* del list[i]
DelAt(list, i) == SubSeq(list, 1, i - 1) \o SubSeq(list, i + 1, Len(list))

\* the kick_stale task: its timeout in minutes, the time its sleep ends, the
\* position of its for loop in the registry (0 while it sleeps), and the
\* session and index of the delete_session it is inside (0 when in none)
NoReaper == [ timeout |-> 0, wake |-> 0, pos |-> 0, victim |-> 0, i |-> 0 ]

\* no connection has come in on a passive listener
NoInbound == [ port |-> 0, peer |-> << >>, session |-> 0, open |-> FALSE, queued |-> FALSE ]

\* the board as the server finds it: nothing synced, running
MachineOn == [ synced |-> FALSE, power |-> "on" ]

\* FTPdLite.__init__, and the file system the server starts with
InitServer ==
    /\ credentials = << >>
    /\ pasv_port_pool = [i \in 1..PoolSize |-> PasvPortBase + i - 1]
    /\ accepting_connections = "unset"
    /\ session_list = << >>
    /\ session = [s \in Slots |-> NoSession]
    /\ task = [s \in Slots |-> "free"]
    /\ del_index = [s \in Slots |-> 0]
    /\ ctrl_open = [s \in Slots |-> FALSE]
    /\ reply = [s \in Slots |-> NoReply]
    /\ filesystem = [p \in {SLASH, S_home, S_etc} |-> "dir"]
    /\ last_mutation = NoMutation
    /\ issued = << >>
    /\ listening = EmptyBag
    /\ clock = 0
    /\ last_active = [s \in Slots |-> 0]
    /\ reaper = NoReaper
    /\ machine = MachineOn
    /\ handlers = [s \in Slots |-> 0]
    /\ inbound = NoInbound

Init ==
    /\ InitServer
    /\ fn_args = [fn |-> ""]
    /\ fn_result = << >>

(***************************************************************************)
(* The file system the os module gives access to.  A path is looked up by  *)
(* its components from the root: empty and "." components are skipped and  *)
(* ".." goes up.                                                           *)
(***************************************************************************)
OsPath(p) ==
    LET q == DecodeWalk(<< >>, Split(p, "/"))
    IN  IF q = << >> THEN SLASH ELSE q

Parent(p) == IF RSplitHead(p, "/") = << >> THEN SLASH ELSE RSplitHead(p, "/")

\* os.stat(p) succeeds
Exists(fs, p) == OsPath(p) \in DOMAIN fs

\* os.stat(p)[0] & 0x4000
IsDir(fs, p) == Exists(fs, p) /\ fs[OsPath(p)] = "dir"

HasChildren(fs, p) == \E q \in DOMAIN fs : q # p /\ Parent(q) = p

\* os.mkdir(p) succeeds
CanMkdir(fs, p) ==
    /\ ~Exists(fs, p)
    /\ IsDir(fs, Parent(OsPath(p)))

\* os.rmdir(p) succeeds
CanRmdir(fs, p) ==
    /\ IsDir(fs, p)
    /\ OsPath(p) # SLASH
    /\ ~HasChildren(fs, OsPath(p))

\* os.remove(p) succeeds
CanRemove(fs, p) == Exists(fs, p) /\ fs[OsPath(p)] = "file"

\* open(p, "wb") succeeds
CanOpenWb(fs, p) ==
    /\ ~IsDir(fs, p)
    /\ IsDir(fs, Parent(OsPath(p)))

Without(fs, p) == [q \in (DOMAIN fs) \ {OsPath(p)} |-> fs[q]]
With(fs, p, kind) == [q \in (DOMAIN fs) \cup {OsPath(p)} |-> IF q = OsPath(p) THEN kind ELSE fs[q]]

(***************************************************************************)
(* Credential strings offered to add_credential.                           *)
(***************************************************************************)
COLON == << ":" >>
S_1000 == << "1", "0", "0", "0" >>

\* b:p:1000:1000::/h:s  -- cleartext password, home directory present
CredBob == Join(<< << "b" >>, << "p" >>, S_1000, S_1000, << >>, S_home, << "s" >> >>, COLON)
\* b:q:0:0::/n:s  -- the same username again: root identity, home directory absent
CredBobRoot == Join(<< << "b" >>, << "q" >>, << "0" >>, << "0" >>, << >>, << "/", "n" >>, << "s" >> >>, COLON)
\* g:$5a$<salt>$<digest of "p">  -- the two-field form, hashed password
CredGuest == Join(<< << "g" >>, create_passwd_entry(Repeat("s", SaltLength), << "p" >>) >>, COLON)
\* bad  -- neither form
CredBad == << "b", "a", "d" >>

CredStrings == { CredBob, CredBobRoot, CredGuest }

\* what add_credential appends to a two-field entry
TwoFieldSuffix ==
    Join(<< << >>, << "6", "5", "5", "3", "4" >>, << "6", "5", "5", "3", "4" >>, << >>, << >>,
            << "/", "b", "i", "n", "/", "n", "o", "l", "o", "g", "i", "n" >> >>, COLON)

\* what add_credential(credential) returns: its first branch appends and
\* falls off the end of the function
add_credential_returns(credential) ==
    IF Count(credential, ":") = 6 THEN << "None" >>
    ELSE IF Count(credential, ":") = 1 THEN << "True" >>
    ELSE << "False" >>

\* FTPdLite.add_credential, called before run()
add_credential(credential) ==
    /\ accepting_connections = "unset"
    /\ Len(credentials) < MaxCredentials
    /\ credentials' =
         IF Count(credential, ":") = 6 THEN Append(credentials, credential)
         ELSE IF Count(credential, ":") = 1
         THEN Append(credentials, credential \o TwoFieldSuffix)
         ELSE credentials
    /\ fn_args' = [ fn |-> "add_credential", credential |-> credential ]
    /\ fn_result' = add_credential_returns(credential)
    /\ UNCHANGED << pasv_port_pool, accepting_connections, session_list, session, task,
                    del_index, ctrl_open, reply, filesystem, last_mutation, port_vars,
                    time_vars, last_active >>

\* FTPdLite.run(idle_timeout=...): the listener is started, and kick_stale,
\* which begins with its first sleep
Run(idle_timeout) ==
    /\ accepting_connections = "unset"
    /\ accepting_connections' = "True"
    /\ reaper' = [NoReaper EXCEPT !.timeout = idle_timeout, !.wake = clock + SweepSeconds]
    /\ UNCHANGED << credentials, pasv_port_pool, session_list, session, task,
                    del_index, ctrl_open, reply, filesystem, last_mutation, port_vars,
                    fn_vars, clock, last_active, machine, handlers,
                    inbound >>

\* FTPdLite.run with its default idle timeout
run == Run(IdleTimeoutDefault)

(***************************************************************************)
(* on_ctrl_connect: one task per control connection.  task[s] is "free"    *)
(* (no connection uses the slot), "loop" (awaiting the next command),      *)
(* "deleting" (inside delete_session, index located), "done" (the task     *)
(* returned) or "crashed" (an exception left the task).                    *)
(***************************************************************************)
Username(s) == session[s].username

\* session.last_active_time = time(), once a request has been read
Stamp(s) == last_active' = [last_active EXCEPT ![s] = clock]

\* the handler returned True: the loop reads the next command
Continue(s) ==
    /\ Stamp(s)
    /\ UNCHANGED << task, del_index >>

\* the loop ends and delete_session(session) runs up to its first await, with
\* the session's index located
LoopEnds(s) ==
    /\ task' = [task EXCEPT ![s] = "deleting"]
    /\ del_index' = [del_index EXCEPT ![s] = IndexOf(session_list, s)]

\* the handler returned False
EndSession(s) == Stamp(s) /\ LoopEnds(s)

\* an exception no handler catches ends the task where it stands
Crash(s) ==
    /\ Stamp(s)
    /\ task' = [task EXCEPT ![s] = "crashed"]
    /\ UNCHANGED del_index

\* on_ctrl_connect up to the command loop
Accept(s, ip) ==
    /\ accepting_connections # "unset"
    /\ task[s] \in {"free", "done"}
    /\ \A i \in 1..Len(session_list) : session_list[i] # s
    /\ IF Len(session_list) > MaxConnections
          \/ find_session(session_list, session, ip) # << >>
       THEN /\ reply' = [reply EXCEPT ![s] =
                            Reply(NoReply, "CONNECT", 421, "Too many connections.", << >>, 0, 0)]
            \* no Session is constructed; the handler returns and leaves the
            \* stream it was handed open
            /\ ctrl_open' = [ctrl_open EXCEPT ![s] = TRUE]
            /\ task' = [task EXCEPT ![s] = "done"]
            /\ UNCHANGED << session, session_list, last_active >>
       ELSE /\ session' = [session EXCEPT ![s] = NewSession(ip)]
            /\ session_list' = Append(session_list, s)
            /\ reply' = [reply EXCEPT ![s] =
                            Reply(NoReply, "CONNECT", 220, "server_name", << >>, 0, 0)]
            /\ last_active' = [last_active EXCEPT ![s] = clock]
            /\ ctrl_open' = [ctrl_open EXCEPT ![s] = TRUE]
            /\ task' = [task EXCEPT ![s] = "loop"]
    /\ del_index' = [del_index EXCEPT ![s] = 0]
    /\ UNCHANGED << server_vars, filesystem, last_mutation, port_vars, fn_vars, time_vars >>

\* mutant of User: the name alone logs the session in
UserLogsIn(s, username) ==
    /\ task[s] = "loop"
    /\ session' = [session EXCEPT ![s].username = username]
    /\ reply' = [reply EXCEPT ![s] = Reply(@, "USER", 230, "Login successful.", << >>, 0, 0)]
    /\ Continue(s)
    /\ UNCHANGED << server_vars, session_list, ctrl_open, filesystem, last_mutation,
                    port_vars, fn_vars, time_vars >>

\* FTPdLite.user
User(s, username) ==
    /\ task[s] = "loop"
    /\ IF accepting_connections # "True" /\ username # S_root
       THEN /\ reply' = [reply EXCEPT ![s] =
                           Reply(@, "USER", 421, "Not accepting connections.", << >>, 0, 0)]
            /\ UNCHANGED session
            /\ EndSession(s)
       ELSE /\ session' = [session EXCEPT ![s].username = username]
            /\ reply' = [reply EXCEPT ![s] =
                           Reply(@, "USER", 331, "Password required.", << >>, 0, 0)]
            /\ Continue(s)
    /\ UNCHANGED << server_vars, session_list, ctrl_open, filesystem, last_mutation,
                    port_vars, fn_vars, time_vars >>

\* the credential passwd's for loop breaks on: its index, 0 with no match
FindCredential(creds, username) ==
    LET hits == {k \in 1..Len(creds) : StartsWith(creds[k], username \o COLON)}
    IN  IF hits = {} THEN 0 ELSE CHOOSE k \in hits : \A j \in hits : k <= j

\* the password check of passwd: "True", "False", "None" or an exception's name
Authenticate(cred_pw, pass_response) ==
    IF Count(cred_pw, "$") = 3
    THEN verify_passwd_entry(cred_pw, pass_response)
    ELSE IF pass_response = cred_pw THEN "True" ELSE "False"

\* mutant of LoginDir: the home directory is entered without the stat
LoginDirUnchecked(fs, home) == IF home = << >> THEN SLASH ELSE home

\* the working directory passwd sets on a successful login
LoginDir(fs, home) ==
    IF home = << >> THEN SLASH
    ELSE IF Exists(fs, home) THEN home
    ELSE SLASH

InvalidLogin(s, k) ==
    /\ reply' = [reply EXCEPT ![s] =
                    Reply(@, "PASS", 430, "Invalid username or password.", << >>, ThrottleMs, k)]
    /\ UNCHANGED session
    /\ EndSession(s)

\* FTPdLite.passwd
Passwd(s, pass_response) ==
    /\ task[s] = "loop"
    /\ IF Username(s) = None
       THEN \* session.username + ":" raises TypeError
            /\ Crash(s)
            /\ UNCHANGED << session, reply >>
       ELSE LET k == FindCredential(credentials, Username(s))
            IN  IF k = 0 THEN InvalidLogin(s, 0)
                ELSE IF Count(credentials[k], ":") # 6 THEN InvalidLogin(s, k)
                ELSE LET f == Split(credentials[k], ":")
                         cred_pw == f[2]
                         cred_uid == ParseInt(f[3])
                         cred_gid == ParseInt(f[4])
                         cred_home == f[6]
                         authenticated == Authenticate(cred_pw, pass_response)
                     IN  IF cred_uid < 0 \/ cred_gid < 0
                            \/ authenticated \notin {"True", "False", "None"}
                         THEN \* int() or create_salted_hash raised
                              /\ Crash(s)
                              /\ UNCHANGED << session, reply >>
                         ELSE IF authenticated = "True"
                         THEN /\ reply' = [reply EXCEPT ![s] =
                                     Reply(@, "PASS", 230, "Login successful.", << >>, 0, k)]
                              /\ session' = [session EXCEPT
                                     ![s].uid = cred_uid,
                                     ![s].gid = cred_gid,
                                     ![s].home_dir = cred_home,
                                     ![s].working_dir = LoginDir(filesystem, cred_home)]
                              /\ Continue(s)
                         ELSE InvalidLogin(s, k)
    /\ UNCHANGED << server_vars, session_list, ctrl_open, filesystem, last_mutation,
                    port_vars, fn_vars, time_vars >>

\* FTPdLite.pwd
Pwd(s) ==
    /\ task[s] = "loop"
    /\ reply' = [reply EXCEPT ![s] = Reply(@, "PWD", 257, "", session[s].working_dir, 0, 0)]
    /\ Continue(s)
    /\ UNCHANGED << server_vars, session_list, session, ctrl_open, filesystem,
                    last_mutation, port_vars, fn_vars, time_vars >>

\* FTPdLite.quit, also reached by an empty request
Quit(s) ==
    /\ task[s] = "loop"
    /\ reply' = [reply EXCEPT ![s] = Reply(@, "QUIT", 221, "Bye.", << >>, 0, 0)]
    /\ EndSession(s)
    /\ UNCHANGED << server_vars, session_list, session, ctrl_open, filesystem,
                    last_mutation, port_vars, fn_vars, time_vars >>

\* close_data_connection: streams and listener closed and removed from the session
ClosedData(rec) == [rec EXCEPT !.data = FALSE, !.listener = 0]

\* the ports still bound once close_data_connection has closed rec's listener
Unbound(ports, rec) ==
    IF rec.listener = 0 THEN ports ELSE ports (-) SetToBag({rec.listener})

\* ctrl_reader.read raised OSError: close_data_connection, then delete_session
Disconnect(s) ==
    /\ task[s] = "loop"
    /\ session' = [session EXCEPT ![s] = ClosedData(@)]
    /\ listening' = Unbound(listening, session[s])
    /\ LoopEnds(s)
    /\ UNCHANGED << server_vars, session_list, ctrl_open, reply, filesystem,
                    last_mutation, issued, fn_vars, time_vars, last_active >>

\* delete_session from its first await on: the channels are closed and the
\* entry at the located index is deleted; the task then returns and drops its
\* reference to the Session object (del session)
DeleteSession(s) ==
    /\ task[s] = "deleting"
    /\ LET i == del_index[s]
           closed == [session EXCEPT ![s] = ClosedData(@)]
           list == DelAt(session_list, i)
           gone == \A j \in 1..Len(list) : list[j] # s
       IN  IF i = 0
           THEN \* the for loop found no entry: nothing is closed or deleted
                /\ task' = [task EXCEPT ![s] = "done"]
                /\ session' =
                      IF \A j \in 1..Len(session_list) : session_list[j] # s
                      THEN [session EXCEPT ![s] = NoSession] ELSE session
                /\ UNCHANGED << ctrl_open, session_list, listening >>
           ELSE /\ ctrl_open' = [ctrl_open EXCEPT ![s] = FALSE]
                /\ listening' = Unbound(listening, session[s])
                /\ IF i > Len(session_list)
                   THEN \* del self._session_list[i] raises IndexError
                        /\ task' = [task EXCEPT ![s] = "crashed"]
                        /\ session' = closed
                        /\ UNCHANGED session_list
                   ELSE /\ session_list' = list
                        /\ session' = IF gone THEN [closed EXCEPT ![s] = NoSession] ELSE closed
                        /\ task' = [task EXCEPT ![s] = "done"]
    /\ del_index' = [del_index EXCEPT ![s] = 0]
    /\ UNCHANGED << server_vars, reply, filesystem, last_mutation, issued, fn_vars,
                    time_vars, last_active >>

(***************************************************************************)
(* The handlers of the commands that walk and change the file system.      *)
(***************************************************************************)
MaxDepth == 2           \* components of the deepest path created

PathDepth(p) == Len(SelectSeq(Split(p, "/"), LAMBDA c : c # << >>))

Missing(param) == param = None \/ param = << >>

Mutation(op, path, rec) ==
    [ op |-> op, path |-> path, uid |-> rec.uid, gid |-> rec.gid, home |-> rec.home_dir ]

\* FTPdLite.cdup
Cdup(s) ==
    /\ task[s] = "loop"
    /\ LET up == IF RSplitHead(session[s].working_dir, "/") = << >>
                 THEN SLASH ELSE RSplitHead(session[s].working_dir, "/")
       IN  /\ session' = [session EXCEPT ![s].working_dir = up]
           /\ reply' = [reply EXCEPT ![s] = Reply(@, "CDUP", 250, "", up, 0, 0)]
    /\ Continue(s)
    /\ UNCHANGED << server_vars, session_list, ctrl_open, filesystem, last_mutation,
                    port_vars, fn_vars, time_vars >>

\* FTPdLite.cwd
Cwd(s, param) ==
    /\ task[s] = "loop"
    /\ LET dirpath == decode_path(param, session[s].working_dir, session[s].home_dir)
       IN  IF ~Exists(filesystem, dirpath)
           THEN /\ reply' = [reply EXCEPT ![s] =
                               Reply(@, "CWD", 550, "No such directory.", << >>, 0, 0)]
                /\ UNCHANGED session
           ELSE IF ~IsDir(filesystem, dirpath)
           THEN /\ reply' = [reply EXCEPT ![s] =
                               Reply(@, "CWD", 550, "Not a directory.", << >>, 0, 0)]
                /\ UNCHANGED session
           ELSE /\ session' = [session EXCEPT ![s].working_dir = dirpath]
                /\ reply' = [reply EXCEPT ![s] =
                               Reply(@, "CWD", 250, "Working directory is now:", dirpath, 0, 0)]
    /\ Continue(s)
    /\ UNCHANGED << server_vars, session_list, ctrl_open, filesystem, last_mutation,
                    port_vars, fn_vars, time_vars >>

\* FTPdLite.mkd
Mkd(s, param) ==
    /\ task[s] = "loop"
    /\ IF Missing(param)
       THEN /\ reply' = [reply EXCEPT ![s] =
                           Reply(@, "MKD", 501, "Missing parameter.", << >>, 0, 0)]
            /\ UNCHANGED << filesystem, last_mutation >>
       ELSE LET dirpath == decode_path(param, session[s].working_dir, session[s].home_dir)
            IN  IF ~has_write_access(session[s].uid, session[s].gid,
                                     session[s].home_dir, dirpath)
                THEN /\ reply' = [reply EXCEPT ![s] =
                                    Reply(@, "MKD", 550, "No access.", << >>, 0, 0)]
                     /\ UNCHANGED << filesystem, last_mutation >>
                ELSE IF CanMkdir(filesystem, dirpath)
                THEN /\ PathDepth(dirpath) <= MaxDepth
                     /\ filesystem' = With(filesystem, dirpath, "dir")
                     /\ last_mutation' = Mutation("MKD", OsPath(dirpath), session[s])
                     /\ reply' = [reply EXCEPT ![s] =
                                    Reply(@, "MKD", 257, "directory created.", dirpath, 0, 0)]
                ELSE /\ reply' = [reply EXCEPT ![s] =
                                    Reply(@, "MKD", 550, "Failed to create directory.", << >>, 0, 0)]
                     /\ UNCHANGED << filesystem, last_mutation >>
    /\ Continue(s)
    /\ UNCHANGED << server_vars, session_list, session, ctrl_open, port_vars, fn_vars, time_vars >>

\* FTPdLite.rmd: the access check is on the parameter as the client sent it
Rmd(s, param) ==
    /\ task[s] = "loop"
    /\ IF Missing(param)
       THEN /\ reply' = [reply EXCEPT ![s] =
                           Reply(@, "RMD", 501, "Missing parameter.", << >>, 0, 0)]
            /\ UNCHANGED << filesystem, last_mutation >>
       ELSE IF ~has_write_access(session[s].uid, session[s].gid, session[s].home_dir, param)
       THEN /\ reply' = [reply EXCEPT ![s] =
                           Reply(@, "RMD", 550, "No access.", << >>, 0, 0)]
            /\ UNCHANGED << filesystem, last_mutation >>
       ELSE LET dirpath == decode_path(param, session[s].working_dir, session[s].home_dir)
            IN  IF CanRmdir(filesystem, dirpath)
                THEN /\ filesystem' = Without(filesystem, dirpath)
                     /\ last_mutation' = Mutation("RMD", OsPath(dirpath), session[s])
                     /\ reply' = [reply EXCEPT ![s] = Reply(@, "RMD", 250, "OK.", << >>, 0, 0)]
                ELSE /\ reply' = [reply EXCEPT ![s] =
                                    Reply(@, "RMD", 550,
                                          "No such directory or directory not empty.", << >>, 0, 0)]
                     /\ UNCHANGED << filesystem, last_mutation >>
    /\ Continue(s)
    /\ UNCHANGED << server_vars, session_list, session, ctrl_open, port_vars, fn_vars, time_vars >>

\* FTPdLite.dele
Dele(s, param) ==
    /\ task[s] = "loop"
    /\ IF Missing(param)
       THEN /\ reply' = [reply EXCEPT ![s] =
                           Reply(@, "DELE", 501, "Missing parameter.", << >>, 0, 0)]
            /\ UNCHANGED << filesystem, last_mutation >>
       ELSE LET filepath == decode_path(param, session[s].working_dir, session[s].home_dir)
            IN  IF ~has_write_access(session[s].uid, session[s].gid,
                                     session[s].home_dir, filepath)
                THEN /\ reply' = [reply EXCEPT ![s] =
                                    Reply(@, "DELE", 550, "No access.", << >>, 0, 0)]
                     /\ UNCHANGED << filesystem, last_mutation >>
                ELSE IF CanRemove(filesystem, filepath)
                THEN /\ filesystem' = Without(filesystem, filepath)
                     /\ last_mutation' = Mutation("DELE", OsPath(filepath), session[s])
                     /\ reply' = [reply EXCEPT ![s] = Reply(@, "DELE", 250, "OK.", << >>, 0, 0)]
                ELSE /\ reply' = [reply EXCEPT ![s] =
                                    Reply(@, "DELE", 550, "No such file.", << >>, 0, 0)]
                     /\ UNCHANGED << filesystem, last_mutation >>
    /\ Continue(s)
    /\ UNCHANGED << server_vars, session_list, session, ctrl_open, port_vars, fn_vars, time_vars >>

\* FTPdLite.port: the server connects to the address the client names;
\* connects says whether open_connection succeeds
Port(s, address, connects) ==
    /\ task[s] = "loop"
    /\ IF address = None
       THEN \* address.count raises AttributeError
            /\ Crash(s)
            /\ UNCHANGED << session, reply >>
       ELSE IF Count(address, ",") # 5
       THEN /\ reply' = [reply EXCEPT ![s] =
                           Reply(@, "PORT", 451, "Invalid parameter.", << >>, 0, 0)]
            /\ UNCHANGED session
            /\ Continue(s)
       ELSE IF ParseInt(Split(address, ",")[5]) < 0 \/ ParseInt(Split(address, ",")[6]) < 0
       THEN \* int() raises ValueError
            /\ Crash(s)
            /\ UNCHANGED << session, reply >>
       ELSE IF connects
       THEN /\ session' = [session EXCEPT ![s].data = TRUE]
            /\ reply' = [reply EXCEPT ![s] = Reply(@, "PORT", 200, "OK.", << >>, 0, 0)]
            /\ Continue(s)
       ELSE /\ reply' = [reply EXCEPT ![s] =
                           Reply(@, "PORT", 425, "Could not open data connection.",
                                 << >>, 0, 0)]
            /\ UNCHANGED session
            /\ Continue(s)
    /\ UNCHANGED << server_vars, session_list, ctrl_open, filesystem, last_mutation,
                    port_vars, fn_vars, time_vars >>

\* mutant of verify_data_connection: the absent channel is not waited for
verify_data_connection_no_wait(has_data, arrives) ==
    [ ready |-> has_data, slept |-> 0 ]

\* FTPdLite.verify_data_connection: whether the data channel is there, and the
\* milliseconds slept to find out.  arrives says whether on_data_connect set
\* the session's streams during the sleep.
verify_data_connection(has_data, arrives) ==
    IF has_data THEN [ ready |-> TRUE, slept |-> 0 ]
    ELSE [ ready |-> arrives, slept |-> DataWaitMs ]

\* on_data_connect runs for session s while its handler sleeps
ArrivesFor(s, arrives) ==
    /\ arrives
    /\ session[s].listener # 0
    /\ Len(find_session(session_list, session, session[s].client_ip)) = 1

NotReady(s, verb, probe) ==
    /\ reply' = [reply EXCEPT ![s] =
                    Reply(@, verb, 426, "Data connection closed. Transfer aborted.",
                          << >>, probe.slept, 0)]
    /\ UNCHANGED << session, listening >>

\* the transfer is over: 226, then close_data_connection
Transferred(s, verb, msg, probe) ==
    /\ reply' = [reply EXCEPT ![s] = After150(Reply(@, verb, 226, msg, << >>, probe.slept, 0))]
    /\ session' = [session EXCEPT ![s] = ClosedData(@)]
    /\ listening' = Unbound(listening, session[s])

\* the transfer failed with the 150 line written; the data channel stays
TransferFailed(s, verb, code, msg, probe) ==
    /\ reply' = [reply EXCEPT ![s] = After150(Reply(@, verb, code, msg, << >>, probe.slept, 0))]
    /\ session' = [session EXCEPT ![s].data = TRUE]
    /\ UNCHANGED listening

\* FTPdLite.stor: the access check is on the parameter as the client sent it.
\* arrives says whether a passive-mode client connects during the 200 ms
\* verify_data_connection waits; written says whether the transfer succeeds
\* once the file is open
Stor(s, param, arrives, written) ==
    /\ task[s] = "loop"
    /\ IF Missing(param)
       THEN /\ reply' = [reply EXCEPT ![s] =
                           Reply(@, "STOR", 501, "Missing parameter.", << >>, 0, 0)]
            /\ UNCHANGED << session, filesystem, last_mutation, listening >>
       ELSE IF ~has_write_access(session[s].uid, session[s].gid, session[s].home_dir, param)
       THEN /\ reply' = [reply EXCEPT ![s] =
                           Reply(@, "STOR", 550, "No access.", << >>, 0, 0)]
            /\ UNCHANGED << session, filesystem, last_mutation, listening >>
       ELSE LET filepath == decode_path(param, session[s].working_dir, session[s].home_dir)
                probe == verify_data_connection(session[s].data, ArrivesFor(s, arrives))
            IN  IF ~probe.ready
                THEN /\ NotReady(s, "STOR", probe)
                     /\ UNCHANGED << filesystem, last_mutation >>
                ELSE IF ~CanOpenWb(filesystem, filepath)
                THEN /\ TransferFailed(s, "STOR", 451, "Error writing file.", probe)
                     /\ UNCHANGED << filesystem, last_mutation >>
                ELSE /\ PathDepth(filepath) <= MaxDepth
                     /\ filesystem' = With(filesystem, filepath, "file")
                     /\ last_mutation' = Mutation("STOR", OsPath(filepath), session[s])
                     /\ IF written
                        THEN Transferred(s, "STOR", "Transfer finished.", probe)
                        ELSE TransferFailed(s, "STOR", 451, "Error writing file.", probe)
    /\ Continue(s)
    /\ UNCHANGED << server_vars, session_list, ctrl_open, issued, fn_vars, time_vars >>

\* FTPdLite.list.  sent says whether the listing can be written to the data
\* channel; an OSError there is not caught
List(s, param, arrives, sent) ==
    /\ task[s] = "loop"
    /\ LET dirpath == decode_path(param, session[s].working_dir, session[s].home_dir)
           probe == verify_data_connection(session[s].data, ArrivesFor(s, arrives))
       IN  IF ~IsDir(filesystem, dirpath)
           THEN /\ reply' = [reply EXCEPT ![s] =
                               Reply(@, "LIST", 451, "Unable to read directory.", << >>, 0, 0)]
                /\ UNCHANGED << session, listening >>
                /\ Continue(s)
           ELSE IF ~probe.ready
           THEN NotReady(s, "LIST", probe) /\ Continue(s)
           ELSE IF sent
           THEN Transferred(s, "LIST", "Directory list sent.", probe) /\ Continue(s)
           ELSE /\ reply' = [reply EXCEPT ![s] =
                               Reply(@, "LIST", 150, "Contents of:", dirpath, probe.slept, 0)]
                /\ session' = [session EXCEPT ![s].data = TRUE]
                /\ UNCHANGED listening
                /\ Crash(s)
    /\ UNCHANGED << server_vars, session_list, ctrl_open, filesystem, last_mutation,
                    issued, fn_vars, time_vars >>

\* FTPdLite.nlst.  An OSError of the write is caught, but the 426 it should
\* be answered with is never awaited, so 150 stays the last line written
Nlst(s, param, arrives, sent) ==
    /\ task[s] = "loop"
    /\ LET dirpath == decode_path(param, session[s].working_dir, session[s].home_dir)
           probe == verify_data_connection(session[s].data, ArrivesFor(s, arrives))
       IN  IF ~IsDir(filesystem, dirpath)
           THEN /\ reply' = [reply EXCEPT ![s] =
                               Reply(@, "NLST", 451, "Unable to read directory.", << >>, 0, 0)]
                /\ UNCHANGED << session, listening >>
           ELSE IF ~probe.ready
           THEN NotReady(s, "NLST", probe)
           ELSE IF sent
           THEN Transferred(s, "NLST", "Directory list sent.", probe)
           ELSE /\ reply' = [reply EXCEPT ![s] =
                               Reply(@, "NLST", 150, "Contents of:", dirpath, probe.slept, 0)]
                /\ session' = [session EXCEPT ![s].data = TRUE]
                /\ UNCHANGED listening
    /\ Continue(s)
    /\ UNCHANGED << server_vars, session_list, ctrl_open, filesystem, last_mutation,
                    issued, fn_vars, time_vars >>

\* FTPdLite.retr.  sent says whether the file can be read and written out
Retr(s, param, arrives, sent) ==
    /\ task[s] = "loop"
    /\ IF Missing(param)
       THEN /\ reply' = [reply EXCEPT ![s] =
                           Reply(@, "RETR", 501, "Missing parameter.", << >>, 0, 0)]
            /\ UNCHANGED << session, listening >>
       ELSE LET filepath == decode_path(param, session[s].working_dir, session[s].home_dir)
                probe == verify_data_connection(session[s].data, ArrivesFor(s, arrives))
            IN  IF ~Exists(filesystem, filepath)
                THEN /\ reply' = [reply EXCEPT ![s] =
                                    Reply(@, "RETR", 550, "No such file.", << >>, 0, 0)]
                     /\ UNCHANGED << session, listening >>
                ELSE IF ~probe.ready
                THEN NotReady(s, "RETR", probe)
                ELSE IF sent /\ ~IsDir(filesystem, filepath)
                THEN Transferred(s, "RETR", "Transfer finished.", probe)
                ELSE TransferFailed(s, "RETR", 451, "Error reading file.", probe)
    /\ Continue(s)
    /\ UNCHANGED << server_vars, session_list, ctrl_open, filesystem, last_mutation,
                    issued, fn_vars, time_vars >>

(***************************************************************************)
(* Passive mode: the port pool, the data listeners and on_data_connect.    *)
(***************************************************************************)
\* mutant of get_pasv_port: the front port is returned and left at the front
get_pasv_port_no_rotation(pool) == [port |-> Head(pool), pool |-> pool]

\* FTPdLite.get_pasv_port: the port returned and the pool it leaves behind
get_pasv_port(pool) == [port |-> Head(pool), pool |-> Append(Tail(pool), Head(pool))]

\* pasv and epsv: get_pasv_port, then start_server on the port and the reply.
\* A port some listener is still bound to may or may not be bound again
\* (binds), and start_server raises OSError when it is not.
Passive(s, verb, code, binds) ==
    /\ task[s] = "loop"
    /\ Len(issued) < MaxIssued
    /\ LET got == get_pasv_port(pasv_port_pool)
       IN  /\ pasv_port_pool' = got.pool
           /\ issued' = Append(issued, got.port)
           /\ IF BagIn(got.port, listening) /\ ~binds
              THEN /\ Crash(s)
                   /\ UNCHANGED << session, reply, listening >>
              ELSE /\ session' = [session EXCEPT ![s].listener = got.port]
                   /\ listening' = listening (+) SetToBag({got.port})
                   /\ reply' = [reply EXCEPT ![s] =
                                  Reply(@, verb, code, "", << >>, 0, 0)]
                   /\ Continue(s)
    /\ UNCHANGED << credentials, accepting_connections, session_list, ctrl_open,
                    filesystem, last_mutation, fn_vars, time_vars >>

\* FTPdLite.pasv
Pasv(s, binds) == Passive(s, "PASV", 227, binds)

\* FTPdLite.epsv
Epsv(s, binds) == Passive(s, "EPSV", 229, binds)

\* FTPdLite.on_data_connect, the connection itself followed: a client at
\* client_ip connects to the listener on port.  The handler closes nothing;
\* streams it does not store are dropped when it returns, and collected says
\* whether the build closes the socket of a dropped stream.
on_data_connect(port, client_ip, collected) ==
    /\ BagIn(port, listening)
    /\ LET found_sessions == find_session(session_list, session, client_ip)
       IN  IF Len(found_sessions) # 1
           THEN /\ UNCHANGED session
                /\ inbound' = [ port |-> port, peer |-> client_ip, session |-> 0,
                                open |-> ~collected, queued |-> FALSE ]
           ELSE /\ session' = [session EXCEPT ![found_sessions[1]].data = TRUE]
                /\ inbound' = [ port |-> port, peer |-> client_ip,
                                session |-> found_sessions[1], open |-> TRUE,
                                queued |-> FALSE ]
    /\ UNCHANGED << server_vars, session_list, task, del_index, ctrl_open, reply,
                    filesystem, last_mutation, port_vars, fn_vars, clock, reaper,
                    machine, handlers, last_active >>

(***************************************************************************)
(* close_data_connection and on_data_connect followed across their         *)
(* suspension points.  A listener accepts a connection and creates the     *)
(* task of on_data_connect, which runs later (inbound.queued until then).  *)
(* close_data_connection closes and deletes writer and reader, closes the  *)
(* listener, which then accepts nothing more, and is suspended in          *)
(* data_listener.wait_closed() (task "closing listener") until the         *)
(* listener's task has ended.                                              *)
(***************************************************************************)
\* the listener on port is open and its close() has not been called
Accepting(port) ==
    /\ BagIn(port, listening)
    /\ \A s \in Slots : task[s] = "closing listener" => session[s].listener # port

\* the listener on port accepts a connection from client_ip and creates the
\* task that will run on_data_connect
DataListenerAccepts(port, client_ip) ==
    /\ Accepting(port)
    /\ ~inbound.queued
    /\ inbound' = [ port |-> port, peer |-> client_ip, session |-> 0, open |-> TRUE,
                    queued |-> TRUE ]
    /\ UNCHANGED << server_vars, session_list, session, task, del_index, ctrl_open,
                    reply, filesystem, last_mutation, port_vars, fn_vars, clock,
                    reaper, machine, handlers, last_active >>

\* the task of on_data_connect runs
OnDataConnectRuns(collected) ==
    /\ inbound.queued
    /\ LET found_sessions == find_session(session_list, session, inbound.peer)
       IN  IF Len(found_sessions) # 1
           THEN /\ UNCHANGED session
                /\ inbound' = [inbound EXCEPT !.open = ~collected, !.queued = FALSE]
           ELSE /\ session' = [session EXCEPT ![found_sessions[1]].data = TRUE]
                /\ inbound' = [inbound EXCEPT !.session = found_sessions[1],
                                              !.queued = FALSE]
    /\ UNCHANGED << server_vars, session_list, task, del_index, ctrl_open, reply,
                    filesystem, last_mutation, port_vars, fn_vars, clock, reaper,
                    machine, handlers, last_active >>

\* ctrl_reader.read raised OSError and close_data_connection(session) runs up
\* to its suspension: writer and reader are closed and deleted and the
\* listener's close() is called.  Without a listener it returns at once and
\* the loop ends.
CloseDataConnectionCalled(s) ==
    /\ task[s] = "loop"
    /\ session' = [session EXCEPT ![s].data = FALSE]
    /\ inbound' = IF session[s].data /\ inbound.session = s
                  THEN [inbound EXCEPT !.open = FALSE] ELSE inbound
    /\ IF session[s].listener = 0
       THEN LoopEnds(s)
       ELSE /\ task' = [task EXCEPT ![s] = "closing listener"]
            /\ UNCHANGED del_index
    /\ UNCHANGED << server_vars, session_list, ctrl_open, reply, filesystem,
                    last_mutation, port_vars, fn_vars, clock, reaper, machine,
                    handlers, last_active >>

\* data_listener.wait_closed() is over: the listener is deleted from the
\* session, close_data_connection returns and the loop ends
CloseDataConnectionReturns(s) ==
    /\ task[s] = "closing listener"
    /\ session' = [session EXCEPT ![s].listener = 0]
    /\ listening' = Unbound(listening, session[s])
    /\ LoopEnds(s)
    /\ UNCHANGED << server_vars, session_list, ctrl_open, reply, filesystem,
                    last_mutation, issued, fn_vars, time_vars, last_active >>

\* FTPdLite.on_data_connect with the connection not followed: a client at
\* client_ip connects to a data listener
DataConnect(client_ip) ==
    /\ listening # EmptyBag
    /\ LET found_sessions == find_session(session_list, session, client_ip)
       IN  IF Len(found_sessions) # 1
           THEN UNCHANGED session
           ELSE session' = [session EXCEPT ![found_sessions[1]].data = TRUE]
    /\ UNCHANGED << server_vars, session_list, task, del_index, ctrl_open, reply,
                    filesystem, last_mutation, port_vars, fn_vars, time_vars,
                    last_active >>

(***************************************************************************)
(* Time and kick_stale, the idle reaper.  The clock is followed at the     *)
(* instants one second before each sweep is due and when it is due.        *)
(***************************************************************************)
MaxSweeps == 3          \* sweeps of the reaper followed

Instants == UNION { { k * SweepSeconds - 1, k * SweepSeconds } : k \in 1..MaxSweeps }

\* time passes up to the next instant; the reaper's sleep ends when it is due
Tick ==
    /\ reaper.pos = 0 /\ reaper.victim = 0
    /\ \E next \in Instants :
          /\ next > clock
          /\ \A t \in Instants : t > clock => next <= t
          /\ accepting_connections = "unset" \/ next <= reaper.wake
          /\ clock' = next
    /\ UNCHANGED << server_vars, session_list, session, task, del_index, ctrl_open,
                    reply, filesystem, last_mutation, port_vars, fn_vars, last_active,
                    reaper, machine, handlers, inbound >>

\* kick_stale: sleep_ms(60000) is over and the for loop over the registry begins
KickStaleWake ==
    /\ accepting_connections # "unset"
    /\ reaper.pos = 0 /\ reaper.victim = 0
    /\ clock = reaper.wake
    /\ reaper' = [reaper EXCEPT !.pos = 1]
    /\ UNCHANGED << server_vars, session_list, session, task, del_index, ctrl_open,
                    reply, filesystem, last_mutation, port_vars, fn_vars, last_active,
                    clock, machine, handlers, inbound >>

\* (time() - s.last_active_time) // 60
idle_minutes(now, last_active_time) == (now - last_active_time) \div 60

\* kick_stale: one turn of the for loop, whose iterator stands at reaper.pos.
\* A stale session is handed to delete_session, which runs up to its first
\* await with the session's index located; past the end, the task sleeps.
KickStaleStep ==
    /\ reaper.pos >= 1 /\ reaper.victim = 0
    /\ IF reaper.pos > Len(session_list)
       THEN reaper' = [reaper EXCEPT !.pos = 0, !.wake = clock + SweepSeconds]
       ELSE LET s == session_list[reaper.pos]
            IN  IF idle_minutes(clock, last_active[s]) > reaper.timeout
                THEN reaper' = [reaper EXCEPT !.victim = s,
                                              !.i = IndexOf(session_list, s)]
                ELSE reaper' = [reaper EXCEPT !.pos = @ + 1]
    /\ UNCHANGED << server_vars, session_list, session, task, del_index, ctrl_open,
                    reply, filesystem, last_mutation, port_vars, fn_vars, last_active,
                    clock, machine, handlers, inbound >>

\* kick_stale inside delete_session(s), from its first await on: the channels
\* of s are closed and the entry at the located index is deleted; the for
\* loop's iterator then moves on.  pos -1: an IndexError ended the task.
KickStaleDelete ==
    /\ reaper.victim # 0
    /\ LET s == reaper.victim
       IN  /\ ctrl_open' = [ctrl_open EXCEPT ![s] = FALSE]
           /\ session' = [session EXCEPT ![s] = ClosedData(@)]
           /\ listening' = Unbound(listening, session[s])
           /\ IF reaper.i > Len(session_list)
              THEN /\ reaper' = [reaper EXCEPT !.pos = -1, !.victim = 0, !.i = 0]
                   /\ UNCHANGED session_list
              ELSE /\ session_list' = DelAt(session_list, reaper.i)
                   /\ reaper' = [reaper EXCEPT !.pos = @ + 1, !.victim = 0, !.i = 0]
    /\ UNCHANGED << server_vars, task, del_index, reply, filesystem, last_mutation,
                    issued, fn_vars, last_active, clock, machine,
                    handlers, inbound >>

(***************************************************************************)
(* parse_request and the dispatch of on_ctrl_connect.  A request buffer is *)
(* a sequence of bytes, an ASCII byte written as its character; BADBYTE is *)
(* a byte that is not valid UTF-8.                                         *)
(***************************************************************************)
BADBYTE == "<0xFF>"
CR == "\r"
SPACE == " "

\* str.upper() for one character
Upper(c) ==
    CASE c = "q" -> "Q" [] c = "u" -> "U" [] c = "i" -> "I" [] c = "t" -> "T"
      [] c = "p" -> "P" [] c = "w" -> "W" [] c = "d" -> "D" [] c = "x" -> "X"
      [] c = "m" -> "M" [] c = "o" -> "O" [] c = "e" -> "E" [] c = "s" -> "S"
      [] OTHER -> c

UpperStr(s) == [i \in 1..Len(s) |-> Upper(s[i])]

\* str.rstrip("\r\n")
RECURSIVE RStripCRLF(_)
RStripCRLF(s) ==
    IF s # << >> /\ s[Len(s)] \in {CR, NL} THEN RStripCRLF(SubSeq(s, 1, Len(s) - 1))
    ELSE s

\* request.split(None, 1): at most two words, split at the first run of blanks
SplitWords(request) ==
    LET body == LStrip(request, SPACE)
        blanks == {i \in 1..Len(body) : body[i] = SPACE}
    IN  IF body = << >> THEN << >>
        ELSE IF blanks = {} THEN << body >>
        ELSE LET e == CHOOSE i \in blanks : \A j \in blanks : i <= j
                 rest == LStrip(SubSeq(body, e, Len(body)), SPACE)
             IN  IF rest = << >> THEN << SubSeq(body, 1, e - 1) >>
                 ELSE << SubSeq(body, 1, e - 1), rest >>

S_QUIT == << "Q", "U", "I", "T" >>
S_PWD == << "P", "W", "D" >>
S_MODE == << "M", "O", "D", "E" >>
S_SITE == << "S", "I", "T", "E" >>

\* FTPdLite.parse_request: the verb and the parameter, or the exception that
\* leaves it.  checked says whether the build validates UTF-8 when it decodes
\* (it then raises UnicodeError, which is no OSError); a build that does not
\* hands the bytes on as they are.
parse_request(req_buffer, checked) ==
    IF checked /\ \E i \in 1..Len(req_buffer) : req_buffer[i] = BADBYTE
    THEN [ error |-> "UnicodeError", verb |-> << >>, param |-> None ]
    ELSE LET request == RStripCRLF(req_buffer)
         IN  IF Len(request) = 0
             THEN [ error |-> "", verb |-> S_QUIT, param |-> None ]
             ELSE IF ~\E i \in 1..Len(request) : request[i] = SPACE
             THEN [ error |-> "", verb |-> UpperStr(request), param |-> None ]
             ELSE IF SplitWords(request) = << >>
             THEN [ error |-> "IndexError", verb |-> << >>, param |-> None ]
             ELSE [ error |-> "", verb |-> UpperStr(SplitWords(request)[1]),
                    param |-> IF Len(SplitWords(request)) = 1 THEN << >>
                              ELSE SplitWords(request)[2] ]

\* the verb is not in _ftp_cmd_dict
NotImplemented(s) ==
    /\ task[s] = "loop"
    /\ reply' = [reply EXCEPT ![s] =
                    Reply(@, "UNKNOWN", 502, "Command not implemented.", << >>, 0, 0)]
    /\ Continue(s)
    /\ UNCHANGED << server_vars, session_list, session, ctrl_open, filesystem,
                    last_mutation, port_vars, fn_vars, time_vars >>

(***************************************************************************)
(* The command loop with a handler followed across its suspension point.   *)
(* send_response writes the reply and awaits writer.drain(); while the     *)
(* handler is suspended there, task[s] is "in pwd" or "in quit".           *)
(***************************************************************************)
\* mutant of AwaitingRequest: a request is also read while a handler is suspended
AwaitingRequestOrDrain(t) == t \in {"loop", "in pwd"}

\* the task stands at request = await ctrl_reader.read(..)
AwaitingRequest(t) == t = "loop"

\* a request is read and pwd is called; it runs up to the await of send_response
PwdCalled(s) ==
    /\ AwaitingRequest(task[s])
    /\ Stamp(s)
    /\ handlers' = [handlers EXCEPT ![s] = @ + 1]
    /\ reply' = [reply EXCEPT ![s] = Reply(@, "PWD", 257, "", session[s].working_dir, 0, 0)]
    /\ task' = [task EXCEPT ![s] = "in pwd"]
    /\ UNCHANGED << server_vars, session_list, session, del_index, ctrl_open, filesystem,
                    last_mutation, port_vars, fn_vars, clock, reaper, machine,
                    inbound >>

\* a request is read and quit is called; it runs up to the await of send_response
QuitCalled(s) ==
    /\ AwaitingRequest(task[s])
    /\ Stamp(s)
    /\ handlers' = [handlers EXCEPT ![s] = @ + 1]
    /\ reply' = [reply EXCEPT ![s] = Reply(@, "QUIT", 221, "Bye.", << >>, 0, 0)]
    /\ task' = [task EXCEPT ![s] = "in quit"]
    /\ UNCHANGED << server_vars, session_list, session, del_index, ctrl_open, filesystem,
                    last_mutation, port_vars, fn_vars, clock, reaper, machine,
                    inbound >>

\* drain() is over and the handler returns: pwd True, the loop reads again;
\* quit False, the loop ends
HandlerReturns(s) ==
    /\ task[s] \in {"in pwd", "in quit"}
    /\ handlers' = [handlers EXCEPT ![s] = @ - 1]
    /\ IF task[s] = "in pwd"
       THEN task' = [task EXCEPT ![s] = "loop"] /\ UNCHANGED del_index
       ELSE LoopEnds(s)
    /\ UNCHANGED << server_vars, session_list, session, ctrl_open, reply, filesystem,
                    last_mutation, port_vars, fn_vars, clock, reaper, machine,
                    last_active, inbound >>

(***************************************************************************)
(* SITE and site_shutdown.                                                 *)
(***************************************************************************)
\* str.lower() for one character
Lower(c) ==
    CASE c = "S" -> "s" [] c = "H" -> "h" [] c = "U" -> "u" [] c = "T" -> "t"
      [] c = "D" -> "d" [] c = "O" -> "o" [] c = "W" -> "w" [] c = "N" -> "n"
      [] OTHER -> c

LowerStr(s) == [i \in 1..Len(s) |-> Lower(s[i])]

S_shutdown == << "s", "h", "u", "t", "d", "o", "w", "n" >>
S_help == << "h", "e", "l", "p" >>
S_dash_h == << "-", "h" >>
S_dash_r == << "-", "r" >>

ShutdownSleepMs == 1000

\* mutant of shutdown_unauthorized: the identity is not looked at
shutdown_unauthorized_nobody(uid, gid) == FALSE

\* site_shutdown: session.uid != 0 and session.gid != 10
shutdown_unauthorized(uid, gid) == uid # RootUid /\ gid # WheelGid

\* site_shutdown(param, session): the reply it causes, whether it clears
\* _accepting_connections, and what it has done to the board.  deepsleep()
\* and reset() do not return.
site_shutdown(param, uid, gid) ==
    LET outcome(code, msg, slept, refuse, synced, power) ==
            [ code |-> code, msg |-> msg, slept |-> slept, refuse |-> refuse,
              synced |-> synced, power |-> power ]
    IN  IF param = S_help
        THEN outcome(214, "refuse new connections, halt (-h), or reboot (-r)", 0,
                     FALSE, FALSE, "on")
        ELSE IF shutdown_unauthorized(uid, gid)
        THEN outcome(550, "Not authorized.", 0, FALSE, FALSE, "on")
        ELSE IF param = None \/ param = << >>
        THEN outcome(211, "Server will refuse new connections.", ShutdownSleepMs,
                     TRUE, TRUE, "on")
        ELSE IF param = S_dash_h
        THEN outcome(221, "Server going down for deep sleep.", ShutdownSleepMs,
                     FALSE, TRUE, "deepsleep")
        ELSE IF param = S_dash_r
        THEN outcome(221, "Server going down for reboot.", ShutdownSleepMs,
                     FALSE, TRUE, "reset")
        ELSE outcome(501, "Invalid parameter.", ShutdownSleepMs, FALSE, TRUE, "on")

\* FTPdLite.site, for the SITE command shutdown and for commands that are
\* not in _site_cmd_dict
Site(s, param) ==
    /\ task[s] = "loop"
    /\ LET has_space == param # None /\ \E i \in 1..Len(param) : param[i] = SPACE
           words == IF param = None THEN << >> ELSE SplitWords(param)
           site_cmd == LowerStr(IF has_space THEN words[1] ELSE param)
           site_param == IF has_space THEN words[2] ELSE << >>
           o == site_shutdown(site_param, session[s].uid, session[s].gid)
       IN  IF param = None \/ (has_space /\ Len(words) < 2)
           THEN \* " " in None raises TypeError; split(None, 1)[1] IndexError
                /\ Crash(s)
                /\ UNCHANGED << reply, accepting_connections, machine >>
           ELSE IF site_cmd # S_shutdown
           THEN /\ reply' = [reply EXCEPT ![s] =
                               Reply(@, "SITE", 504, "Parameter not supported.", << >>, 0, 0)]
                /\ Continue(s)
                /\ UNCHANGED << accepting_connections, machine >>
           ELSE /\ reply' = [reply EXCEPT ![s] =
                               Reply(@, "SITE", o.code, o.msg, << >>, o.slept, 0)]
                /\ accepting_connections' =
                      IF o.refuse THEN "False" ELSE accepting_connections
                /\ machine' = [ synced |-> machine.synced \/ o.synced, power |-> o.power ]
                /\ Continue(s)
    /\ UNCHANGED << credentials, pasv_port_pool, session_list, session, ctrl_open,
                    filesystem, last_mutation, port_vars, fn_vars, clock, reaper,
                    handlers, inbound >>

\* FTPdLite.site for the request "SITE kick <site_param>": site_kick, and in
\* it delete_session of the one session found, from its call to its return
S_kick == << "k", "i", "c", "k" >>

SiteKick(s, site_param) ==
    /\ task[s] = "loop"
    /\ LET matching_sessions == find_session(session_list, session, site_param)
           answer(code, msg) ==
               /\ reply' = [reply EXCEPT ![s] = Reply(@, "SITE", code, msg, << >>, 0, 0)]
               /\ UNCHANGED << session_list, session, ctrl_open, listening >>
       IN  IF site_param = S_help
           THEN answer(214, "disconnect a session by username or IP")
           ELSE IF site_param = << >> THEN answer(501, "Missing parameter.")
           ELSE IF session[s].gid # RootUid THEN answer(550, "Not authorized.")
           ELSE IF Len(matching_sessions) < 1 THEN answer(450, "Not found.")
           ELSE IF Len(matching_sessions) > 1 THEN answer(450, "Multiple instances exist.")
           ELSE LET v == matching_sessions[1]
                IN  /\ ctrl_open' = [ctrl_open EXCEPT ![v] = FALSE]
                    /\ session' = [session EXCEPT ![v] = ClosedData(@)]
                    /\ listening' = Unbound(listening, session[v])
                    /\ session_list' = DelAt(session_list, IndexOf(session_list, v))
                    \* a session that kicked itself writes to a closed channel
                    /\ reply' = IF v = s THEN reply
                                ELSE [reply EXCEPT ![s] =
                                        Reply(@, "SITE", 211, "Kicked", << >>, 0, 0)]
    /\ Continue(s)
    /\ UNCHANGED << server_vars, filesystem, last_mutation, issued, fn_vars, time_vars >>

\* FTPdLite.mode
Mode(s, param) ==
    /\ task[s] = "loop"
    /\ IF param = None
       THEN \* None.upper() raises AttributeError
            /\ Crash(s)
            /\ UNCHANGED reply
       ELSE /\ reply' = [reply EXCEPT ![s] =
                           IF UpperStr(param) = << "S" >>
                           THEN Reply(@, "MODE", 200, "OK.", << >>, 0, 0)
                           ELSE Reply(@, "MODE", 504, "Transfer mode not supported.",
                                      << >>, 0, 0)]
            /\ Continue(s)
    /\ UNCHANGED << server_vars, session_list, session, ctrl_open, filesystem,
                    last_mutation, port_vars, fn_vars, time_vars >>

\* one turn of the command loop: a buffer is read, parsed and dispatched
Request(s, req_buffer, checked) ==
    /\ task[s] = "loop"
    /\ LET r == parse_request(req_buffer, checked)
       IN  IF r.error # ""
           THEN /\ Crash(s)
                /\ UNCHANGED << server_vars, session_list, session, ctrl_open, reply,
                                filesystem, last_mutation, port_vars, fn_vars, time_vars >>
           ELSE IF r.verb = S_QUIT THEN Quit(s)
           ELSE IF r.verb = S_PWD THEN Pwd(s)
           ELSE IF r.verb = S_MODE THEN Mode(s, r.param)
           ELSE IF r.verb = S_SITE THEN Site(s, r.param)
           ELSE NotImplemented(s)

\* a call of find_session(search_value), as on_ctrl_connect, on_data_connect and
\* site_kick make it
FindSessionCall(search_value) ==
    /\ accepting_connections # "unset"
    /\ fn_args' = [fn |-> "find_session", search_value |-> search_value]
    /\ fn_result' = find_session(session_list, session, search_value)
    /\ UNCHANGED << server_vars, session_list, session, task, del_index, ctrl_open,
                    reply, filesystem, last_mutation, port_vars, time_vars,
                    last_active >>

(***************************************************************************)
(* Spec: the listener with several connections at a time.  One account is  *)
(* on offer and the clients send the login commands and QUIT.              *)
(***************************************************************************)
Usernames == { << "b" >> }
Passwords == { << "p" >>, << "q" >> }

Next ==
    \/ add_credential(CredBob)
    \/ run
    \/ \E s \in Slots, ip \in ClientIPs : Accept(s, ip)
    \/ \E s \in Slots, u \in Usernames : User(s, u)
    \/ \E s \in Slots, pw \in Passwords : Passwd(s, pw)
    \/ \E s \in Slots : Pwd(s)
    \/ \E s \in Slots : Quit(s)
    \/ \E s \in Slots : Disconnect(s)
    \/ \E s \in Slots : DeleteSession(s)

Spec == Init /\ [][Next]_vars

(***************************************************************************)
(* SpecLogin: one connection at a time, with every kind of credential      *)
(* record, username and password the login handlers distinguish.           *)
(***************************************************************************)
FirstSlot == CHOOSE s \in Slots : \A t \in Slots : s <= t

LoginUsernames == { << "b" >>, << "g" >>, << "x" >>, << "b", ":", "p" >>, None }
LoginPasswords == { << "p" >>, << "q" >>, None }

NextLogin ==
    \/ \E c \in CredStrings \cup {CredBad} : add_credential(c)
    \/ run
    \/ \E ip \in ClientIPs : Accept(FirstSlot, ip)
    \/ \E u \in LoginUsernames : User(FirstSlot, u)
    \/ \E pw \in LoginPasswords : Passwd(FirstSlot, pw)
    \/ Pwd(FirstSlot)
    \/ Quit(FirstSlot)
    \/ Disconnect(FirstSlot)
    \/ DeleteSession(FirstSlot)

SpecLogin == Init /\ [][NextLogin]_vars

(***************************************************************************)
(* SpecRegistry: connections that give a username come and go while the    *)
(* registry is searched by client address and by username.                 *)
(***************************************************************************)
S_1b == << "1", "b" >>

RegistryUsernames == { << "b" >>, S_1b }
SearchValues == ClientIPs \cup RegistryUsernames \cup { S_nobody }

NextRegistry ==
    \/ run
    \/ \E s \in Slots, ip \in ClientIPs : Accept(s, ip)
    \/ \E s \in Slots, u \in RegistryUsernames : User(s, u)
    \/ \E s \in Slots : Quit(s)
    \/ \E s \in Slots : DeleteSession(s)
    \/ \E v \in SearchValues : FindSessionCall(v)

SpecRegistry == Init /\ [][NextRegistry]_vars

(***************************************************************************)
(* SpecAccept: more connections arrive than the listener admits, each from *)
(* an address of its own or from the address of the first one.             *)
(***************************************************************************)
AcceptSlots == 1..(MaxConnections + 2)

Digits == << "0", "1", "2", "3", "4", "5", "6", "7", "8", "9" >>

\* the address the k-th client connects from
AddressOf(k) ==
    IF k < 10 THEN << Digits[k + 1] >>
    ELSE << Digits[(k \div 10) + 1], Digits[(k % 10) + 1] >>

IsFree(s) ==
    /\ task[s] \in {"free", "done"}
    /\ \A i \in 1..Len(session_list) : session_list[i] # s

InitAccept ==
    /\ credentials = << >>
    /\ pasv_port_pool = [i \in 1..PoolSize |-> PasvPortBase + i - 1]
    /\ accepting_connections = "unset"
    /\ session_list = << >>
    /\ session = [s \in AcceptSlots |-> NoSession]
    /\ task = [s \in AcceptSlots |-> "free"]
    /\ del_index = [s \in AcceptSlots |-> 0]
    /\ ctrl_open = [s \in AcceptSlots |-> FALSE]
    /\ reply = [s \in AcceptSlots |-> NoReply]
    /\ filesystem = [p \in {SLASH, S_home, S_etc} |-> "dir"]
    /\ last_mutation = NoMutation
    /\ issued = << >>
    /\ listening = EmptyBag
    /\ fn_args = [fn |-> ""]
    /\ fn_result = << >>
    /\ clock = 0
    /\ last_active = [s \in AcceptSlots |-> 0]
    /\ reaper = NoReaper
    /\ machine = MachineOn
    /\ handlers = [s \in AcceptSlots |-> 0]
    /\ inbound = NoInbound

NextAccept ==
    \/ run
    \/ \E s \in AcceptSlots : \E ip \in { AddressOf(s), AddressOf(1) } :
          /\ IsFree(s)
          /\ \A r \in 1..(s - 1) : ~IsFree(r)
          /\ Accept(s, ip)
    \/ Quit(1)
    \/ DeleteSession(1)

SpecAccept == InitAccept /\ [][NextAccept]_vars

(***************************************************************************)
(* SpecRequest: the command loop reads request buffers of every kind       *)
(* parse_request distinguishes.                                            *)
(***************************************************************************)
CRLF == << CR, NL >>

RequestBuffers ==
    { << >>,                                        \* end of stream
      CRLF,                                         \* an empty line
      S_QUIT \o CRLF,
      << "q", "u", "i", "t" >> \o CRLF,
      << "p", "w", "d" >> \o CRLF,
      S_PWD \o << SPACE >> \o CRLF,
      S_PWD \o << SPACE, "x" >> \o CRLF,
      << "X" >> \o CRLF,
      << SPACE >> \o CRLF,
      << BADBYTE >> \o CRLF,
      S_QUIT \o << BADBYTE >> \o CRLF }

NextRequest ==
    \/ run
    \/ \E s \in Slots, ip \in ClientIPs : Accept(s, ip)
    \/ \E s \in Slots, b \in RequestBuffers, checked \in BOOLEAN : Request(s, b, checked)
    \/ \E s \in Slots : Disconnect(s)
    \/ \E s \in Slots : DeleteSession(s)

SpecRequest == Init /\ [][NextRequest]_vars

(***************************************************************************)
(* SpecTeardown: sessions that may hold a passive listener and a data      *)
(* connection leave by QUIT or by a read error on the control channel.     *)
(***************************************************************************)
NextTeardown ==
    \/ run
    \/ \E s \in Slots, ip \in ClientIPs : Accept(s, ip)
    \/ \E s \in Slots : session[s].listener = 0 /\ Pasv(s, TRUE)
    \/ \E ip \in ClientIPs : DataConnect(ip)
    \/ \E s \in Slots : Quit(s)
    \/ \E s \in Slots : Disconnect(s)
    \/ \E s \in Slots : DeleteSession(s)

SpecTeardown == Init /\ [][NextTeardown]_vars

(***************************************************************************)
(* SpecFiles: one connection that logs in as b (uid 1000, home /h), or     *)
(* stays the unauthenticated nobody, and sends the commands that walk and  *)
(* change the file system.                                                 *)
(***************************************************************************)
P_x == << "x" >>
P_home_x == S_home \o << "/", "x" >>
P_homex == S_home \o << "x" >>
P_etc_x == S_etc \o << "/", "x" >>
P_up_etc == S_home \o << "/", ".", "." >> \o S_etc
P_up_f == S_home \o << "/", ".", ".", "/", "f" >>

CwdParams == { None, P_x, S_etc }
MkdParams == { None, P_x, P_home_x, P_homex, P_etc_x }
RmdParams == { None, P_x, P_home_x, P_up_etc }
DeleParams == { None, P_home_x, P_up_f }
StorParams == { None, P_home_x, P_up_f }

PortAddress == << "1", ",", "1", ",", "1", ",", "1", ",", "0", ",", "1" >>

NextFiles ==
    \/ add_credential(CredBob)
    \/ run
    \/ Accept(FirstSlot, << "1" >>)
    \/ \E u \in Usernames : User(FirstSlot, u)
    \/ \E pw \in Passwords : Passwd(FirstSlot, pw)
    \/ Cdup(FirstSlot)
    \/ \E param \in CwdParams : Cwd(FirstSlot, param)
    \/ \E param \in MkdParams : Mkd(FirstSlot, param)
    \/ \E param \in RmdParams : Rmd(FirstSlot, param)
    \/ \E param \in DeleParams : Dele(FirstSlot, param)
    \/ \E connects \in BOOLEAN : Port(FirstSlot, PortAddress, connects)
    \/ \E param \in StorParams, written \in BOOLEAN : Stor(FirstSlot, param, FALSE, written)
    \/ Quit(FirstSlot)
    \/ DeleteSession(FirstSlot)

SpecFiles == Init /\ [][NextFiles]_vars

(***************************************************************************)
(* SpecWorkdir: a client logs in through records whose home field is or is *)
(* not a normalized path, and walks the directories.                       *)
(***************************************************************************)
S_home_dots == S_etc \o << "/", ".", "." >> \o S_home
S_home_slash == S_home \o SLASH

\* d:p:1000:1000::/e/../h:s  -- the home directory written with a ".." component
CredDots == Join(<< << "d" >>, << "p" >>, S_1000, S_1000, << >>, S_home_dots, << "s" >> >>, COLON)
\* t:p:1000:1000::/h/:s  -- the home directory written with a trailing slash
CredTrail == Join(<< << "t" >>, << "p" >>, S_1000, S_1000, << >>, S_home_slash, << "s" >> >>, COLON)

WorkdirUsernames == { << "b" >>, << "d" >>, << "t" >> }
WorkdirParams == { None, P_x, S_etc, << ".", "." >>, << "~" >> }

NextWorkdir ==
    \/ \E c \in {CredBob, CredDots, CredTrail} : add_credential(c)
    \/ run
    \/ Accept(FirstSlot, << "1" >>)
    \/ \E u \in WorkdirUsernames : User(FirstSlot, u)
    \/ Passwd(FirstSlot, << "p" >>)
    \/ Cdup(FirstSlot)
    \/ \E param \in WorkdirParams : Cwd(FirstSlot, param)
    \/ Pwd(FirstSlot)
    \/ DeleteSession(FirstSlot)

SpecWorkdir == Init /\ [][NextWorkdir]_vars

(***************************************************************************)
(* SpecGuest: one connection that stays nobody, or logs in through the     *)
(* two-field record of g or the full record of b, in any order, and sends  *)
(* the commands that change the file system.                               *)
(***************************************************************************)
GuestUsernames == { << "b" >>, << "g" >> }
GuestParams == { P_x, P_home_x, S_etc, S_home }

NextGuest ==
    \/ \E c \in {CredBob, CredGuest} : add_credential(c)
    \/ run
    \/ Accept(FirstSlot, << "1" >>)
    \/ \E u \in GuestUsernames : User(FirstSlot, u)
    \/ Passwd(FirstSlot, << "p" >>)
    \/ Cwd(FirstSlot, S_home)
    \/ \E param \in GuestParams : Mkd(FirstSlot, param)
    \/ \E param \in GuestParams : Rmd(FirstSlot, param)
    \/ \E param \in GuestParams : Dele(FirstSlot, param)
    \/ \E param \in GuestParams, written \in BOOLEAN : Stor(FirstSlot, param, FALSE, written)
    \/ \E connects \in BOOLEAN : Port(FirstSlot, PortAddress, connects)
    \/ DeleteSession(FirstSlot)

SpecGuest == Init /\ [][NextGuest]_vars

(***************************************************************************)
(* SpecData: one connection, logged in as b or not at all, opens passive   *)
(* mode and sends the commands that use the data channel; the client's     *)
(* data connection arrives before the command, during its wait, or never.  *)
(***************************************************************************)
ListParams == { None, S_etc, P_x }
RetrParams == { None, S_etc, P_home_x }
StorDataParams == { None, S_etc, P_home_x }

NextData ==
    \/ add_credential(CredBob)
    \/ run
    \/ Accept(FirstSlot, << "1" >>)
    \/ \E u \in Usernames : User(FirstSlot, u)
    \/ \E pw \in Passwords : Passwd(FirstSlot, pw)
    \/ session[FirstSlot].listener = 0 /\ Pasv(FirstSlot, TRUE)
    \/ DataConnect(<< "1" >>)
    \/ \E param \in ListParams, arrives, sent \in BOOLEAN : List(FirstSlot, param, arrives, sent)
    \/ \E param \in ListParams, arrives, sent \in BOOLEAN : Nlst(FirstSlot, param, arrives, sent)
    \/ \E param \in RetrParams, arrives, sent \in BOOLEAN : Retr(FirstSlot, param, arrives, sent)
    \/ \E param \in StorDataParams, arrives, written \in BOOLEAN :
          Stor(FirstSlot, param, arrives, written)
    \/ Quit(FirstSlot)
    \/ DeleteSession(FirstSlot)

SpecData == Init /\ [][NextData]_vars

(***************************************************************************)
(* SpecReaper: the server runs with an idle timeout of one minute; clients *)
(* connect, send a command now and then, and stay until the reaper closes  *)
(* their channels, which ends their connection task with a read error.     *)
(***************************************************************************)
ReaperTimeout == 1

NextReaper ==
    \/ Run(ReaperTimeout)
    \/ \E s \in Slots, ip \in ClientIPs : Accept(s, ip)
    \/ \E s \in Slots : ctrl_open[s] /\ Pwd(s)
    \/ Tick
    \/ KickStaleWake
    \/ KickStaleStep
    \/ KickStaleDelete
    \/ \E s \in Slots : ~ctrl_open[s] /\ Disconnect(s)
    \/ \E s \in Slots : DeleteSession(s)

SpecReaper == Init /\ [][NextReaper]_vars

(***************************************************************************)
(* SpecPool: a connection that asks for passive mode again and again, so   *)
(* that the port pool is drawn from more often than it has ports.          *)
(***************************************************************************)
NextPool ==
    \/ run
    \/ \E ip \in ClientIPs : Accept(FirstSlot, ip)
    \/ \E binds \in BOOLEAN : Pasv(FirstSlot, binds)
    \/ \E binds \in BOOLEAN : Epsv(FirstSlot, binds)
    \/ \E ip \in ClientIPs : DataConnect(ip)
    \/ Quit(FirstSlot)
    \/ Disconnect(FirstSlot)
    \/ DeleteSession(FirstSlot)

SpecPool == Init /\ [][NextPool]_vars

(***************************************************************************)
(* SpecPassive: clients with passive listeners, and connections that come  *)
(* in on them from the clients' addresses and from an address without a    *)
(* session.                                                                *)
(***************************************************************************)
PeerIPs == ClientIPs \cup { << "3" >> }

NextPassive ==
    \/ run
    \/ \E s \in Slots, ip \in ClientIPs : Accept(s, ip)
    \/ \E s \in Slots : session[s].listener = 0 /\ Pasv(s, TRUE)
    \/ \E port \in BagToSet(listening), ip \in PeerIPs, collected \in BOOLEAN :
          on_data_connect(port, ip, collected)

SpecPassive == Init /\ [][NextPassive]_vars

(***************************************************************************)
(* SpecProtocol: command lines with unknown verbs and with parameters      *)
(* missing, empty or malformed.                                            *)
(***************************************************************************)
\* lines whose verb is not in _ftp_cmd_dict
UnknownVerbLines == { << "X" >> \o CRLF, << "X", SPACE, "x" >> \o CRLF }

\* lines of a verb of _ftp_cmd_dict whose parameter is missing, empty or
\* not one the handler accepts
BadParamLines ==
    { S_MODE \o CRLF,
      S_MODE \o << SPACE >> \o CRLF,
      S_MODE \o << SPACE, "x" >> \o CRLF,
      S_SITE \o CRLF,
      S_SITE \o << SPACE >> \o CRLF,
      S_SITE \o << SPACE, "x" >> \o CRLF }

ProtocolLines ==
    UnknownVerbLines \cup BadParamLines
        \cup { S_PWD \o CRLF, << "m", "o", "d", "e", SPACE, "s" >> \o CRLF }

NextProtocol ==
    \/ run
    \/ \E s \in Slots, ip \in ClientIPs : Accept(s, ip)
    \/ \E s \in Slots, b \in ProtocolLines : Request(s, b, TRUE)
    \/ \E s \in Slots : Disconnect(s)
    \/ \E s \in Slots : DeleteSession(s)

SpecProtocol == Init /\ [][NextProtocol]_vars

(***************************************************************************)
(* SpecSerial: several connections whose handlers are followed across      *)
(* their suspension points.                                                *)
(***************************************************************************)
NextSerial ==
    \/ run
    \/ \E s \in Slots, ip \in ClientIPs : Accept(s, ip)
    \/ \E s \in Slots, u \in Usernames : User(s, u)
    \/ \E s \in Slots : PwdCalled(s)
    \/ \E s \in Slots : QuitCalled(s)
    \/ \E s \in Slots : HandlerReturns(s)
    \/ \E s \in Slots : DeleteSession(s)

SpecSerial == Init /\ [][NextSerial]_vars

(***************************************************************************)
(* SpecShutdown: an administrator's connection in the first slot, and      *)
(* clients that connect once the server has been told to refuse new        *)
(* connections.                                                            *)
(***************************************************************************)
\* root:p:0:0::/:s
CredRoot == Join(<< S_root, << "p" >>, << "0" >>, << "0" >>, << >>, SLASH, << "s" >> >>, COLON)
\* w:p:1000:10::/h:s  -- not root, member of group 10
CredWheel == Join(<< << "w" >>, << "p" >>, S_1000, << "1", "0" >>, << >>, S_home, << "s" >> >>, COLON)

ShutdownUsernames == { << "b" >>, << "w" >>, S_root }
ShutdownPasswords == { << "p" >> }

SiteParams ==
    { None,
      S_shutdown,
      S_shutdown \o << SPACE >> \o S_help,
      S_shutdown \o << SPACE >> \o S_dash_h,
      << "S", "H", "U", "T", "D", "O", "W", "N", SPACE >> \o S_dash_r,
      S_shutdown \o << SPACE, "x" >>,
      << "x" >> }

\* the first slot is a client that connects while the server accepts
\* connections, the second one that connects when it no longer does
ShutdownSlots == { FirstSlot, FirstSlot + 1 }
LateSlots == ShutdownSlots \ {FirstSlot}

NextShutdown ==
    /\ machine.power = "on"
    /\ \/ \E c \in {CredWheel, CredRoot} : add_credential(c)
       \/ run
       \/ \E s \in ShutdownSlots : \E ip \in {AddressOf(s)} :
             /\ accepting_connections = IF s \in LateSlots THEN "False" ELSE "True"
             /\ Accept(s, ip)
       \/ \E s \in ShutdownSlots, u \in ShutdownUsernames : User(s, u)
       \/ \E s \in ShutdownSlots, pw \in ShutdownPasswords : Passwd(s, pw)
       \/ \E s \in ShutdownSlots : Pwd(s)
       \/ \E s \in ShutdownSlots, param \in SiteParams : Site(s, param)
       \/ \E s \in ShutdownSlots : DeleteSession(s)

SpecShutdown == Init /\ [][NextShutdown]_vars

(***************************************************************************)
(* SpecKick: root and another client are connected; root kicks sessions by *)
(* address or by name and the idle reaper sweeps.  A connection task whose *)
(* control channel was closed under it has its read fail or end.           *)
(***************************************************************************)
KickParams == { << >>, << "1" >>, << "2" >>, S_nobody }

\* the first connection is root's, the second another client's
KickSlots == { FirstSlot, FirstSlot + 1 }

NextKick ==
    \/ credentials = << >> /\ accepting_connections = "unset" /\ add_credential(CredRoot)
    \/ Run(ReaperTimeout)
    \/ \E s \in KickSlots : \E ip \in {AddressOf(s)} : Accept(s, ip)
    \/ ctrl_open[FirstSlot] /\ User(FirstSlot, S_root)
    \/ ctrl_open[FirstSlot] /\ Passwd(FirstSlot, << "p" >>)
    \/ \E param \in KickParams : ctrl_open[FirstSlot] /\ SiteKick(FirstSlot, param)
    \/ Tick
    \/ KickStaleWake
    \/ KickStaleStep
    \/ KickStaleDelete
    \/ \E s \in KickSlots : ~ctrl_open[s] /\ Disconnect(s)
    \/ \E s \in KickSlots : ~ctrl_open[s] /\ Request(s, << >>, TRUE)
    \/ \E s \in KickSlots : DeleteSession(s)

SpecKick == Init /\ [][NextKick]_vars

(***************************************************************************)
(* SpecCeiling: clients connect, the k-th from its own address and the     *)
(* second also from the first client's, until the registry is full and     *)
(* beyond.  The first client logs in as root, kicks sessions by address,   *)
(* signs off or loses its connection and connects again; the idle reaper   *)
(* sweeps, up to its second sweep.  The other clients connect within the   *)
(* first minute, time is followed from the moment the registry is full,    *)
(* and only the task of the first connection is followed after its session *)
(* was torn down.                                                          *)
(***************************************************************************)
CeilingKicks == { << "1" >>, << "2" >> }

NextCeiling ==
    \/ credentials = << >> /\ accepting_connections = "unset" /\ add_credential(CredRoot)
    \/ Run(ReaperTimeout)
    \/ \E s \in AcceptSlots : \E ip \in { AddressOf(s), AddressOf(1) } :
          /\ IsFree(s)
          /\ \A r \in 1..(s - 1) : ~IsFree(r)
          /\ s = FirstSlot \/ (clock = 0 /\ (s = FirstSlot + 1 \/ ip = AddressOf(s)))
          /\ Accept(s, ip)
    \/ ctrl_open[FirstSlot] /\ User(FirstSlot, S_root)
    \/ ctrl_open[FirstSlot] /\ Passwd(FirstSlot, << "p" >>)
    \/ \E param \in CeilingKicks : ctrl_open[FirstSlot] /\ SiteKick(FirstSlot, param)
    \/ ctrl_open[FirstSlot] /\ Quit(FirstSlot)
    \/ ~ctrl_open[FirstSlot] /\ Disconnect(FirstSlot)
    \/ DeleteSession(FirstSlot)
    \/ /\ clock < 2 * SweepSeconds
       /\ clock > 0 \/ Len(session_list) > MaxConnections
       /\ Tick
    \/ KickStaleWake
    \/ KickStaleStep
    \/ KickStaleDelete

SpecCeiling == InitAccept /\ [][NextCeiling]_vars

(***************************************************************************)
(* SpecRace: clients with passive listeners lose their control connection  *)
(* while connections come in on the listeners.                             *)
(***************************************************************************)
NextRace ==
    \/ run
    \/ \E s \in Slots : \E ip \in {AddressOf(s)} : Accept(s, ip)
    \/ \E s \in Slots : session[s].listener = 0 /\ Pasv(s, TRUE)
    \/ \E port \in BagToSet(listening), ip \in ClientIPs : DataListenerAccepts(port, ip)
    \/ \E collected \in BOOLEAN : OnDataConnectRuns(collected)
    \/ \E s \in Slots : CloseDataConnectionCalled(s)
    \/ \E s \in Slots : CloseDataConnectionReturns(s)
    \/ \E s \in Slots : DeleteSession(s)

SpecRace == Init /\ [][NextRace]_vars

(***************************************************************************)
(* SpecIdle: two clients connect in the first minute.  The first keeps     *)
(* sending commands and signs off at some time; the second opens a passive *)
(* listener and then sends nothing.  The other tasks run while kick_stale  *)
(* sleeps or is suspended closing the listener of the session it evicts.   *)
(* The scheduler is round-robin and time goes on: a step that can be taken *)
(* again and again is taken in the end (strong fairness).                  *)
(***************************************************************************)
ActiveSlot == FirstSlot
IdleSlot == FirstSlot + 1

\* kick_stale is not running: it sleeps, has ended, or awaits the end of a listener
ReaperSuspended ==
    \/ reaper.pos <= 0
    \/ reaper.victim # 0 /\ session[reaper.victim].listener # 0

\* delete_session of a session without a passive listener runs to its end
\* without a suspension: nothing else runs before its DeleteSession
TeardownPending ==
    \E s \in {ActiveSlot, IdleSlot} : task[s] = "deleting" /\ session[s].listener = 0

IdleTasks ==
    \/ \E s \in {ActiveSlot, IdleSlot} : \E ip \in {AddressOf(s)} : clock = 0 /\ Accept(s, ip)
    \/ /\ clock = 0 /\ ctrl_open[IdleSlot] /\ session[IdleSlot].listener = 0
       /\ Pasv(IdleSlot, TRUE)
    \/ ctrl_open[ActiveSlot] /\ Pwd(ActiveSlot)
    \/ ctrl_open[ActiveSlot] /\ Quit(ActiveSlot)
    \/ \E s \in {ActiveSlot, IdleSlot} : ~ctrl_open[s] /\ Disconnect(s)

IdleTeardown == \E s \in {ActiveSlot, IdleSlot} : ReaperSuspended /\ DeleteSession(s)
IdleTick == ~TeardownPending /\ Tick
IdleWake == ~TeardownPending /\ KickStaleWake
IdleStep == ~TeardownPending /\ KickStaleStep
IdleDelete == ~TeardownPending /\ KickStaleDelete
IdleDisconnect ==
    /\ ~TeardownPending /\ ReaperSuspended
    /\ \E s \in {ActiveSlot, IdleSlot} : ~ctrl_open[s] /\ Disconnect(s)

NextIdle ==
    \/ Run(ReaperTimeout)
    \/ ~TeardownPending /\ ReaperSuspended /\ IdleTasks
    \/ IdleTeardown
    \/ IdleTick
    \/ IdleWake
    \/ IdleStep
    \/ IdleDelete

SpecIdle ==
    /\ Init
    /\ [][NextIdle]_vars
    /\ SF_vars(IdleTick)
    /\ SF_vars(IdleWake)
    /\ SF_vars(IdleStep)
    /\ SF_vars(IdleDelete)
    /\ SF_vars(IdleDisconnect)
    /\ SF_vars(IdleTeardown)

(***************************************************************************)
(* SpecPath: decode_path applied to paths of every shape it distinguishes, *)
(* under normalized absolute working directories, and applied again to its *)
(* own result.                                                             *)
(***************************************************************************)
PathInputs ==
    {
      None,                                       \* no parameter
      << >>,                                      \* the empty parameter
      << "." >>,                                  \* .
      << ".", "." >>,                             \* ..
      << "x" >>,                                  \* x
      << "x", "/" >>,                             \* x/
      << "/", "x" >>,                             \* /x
      << "/", "x", "/", "y" >>,                   \* /x/y
      << "x", "/", ".", ".", "/", "y" >>,         \* x/../y
      << ".", ".", "/", ".", "." >>,              \* ../..
      << "/", "/", "x" >>,                        \* //x
      << "/", "x", "/", "/", "y", "/" >>,         \* /x//y/
      << ".", "/", "x" >>,                        \* ./x
      << "/", ".", "." >>,                        \* /..
      << "x", "/", "." >>,                        \* x/.
      << ".", ".", "x" >>,                        \* ..x
      << "/", "a", "/", "b", "/", ".", ".", "/", ".", "." >>,  \* /a/b/../..
      << "~" >>,                                  \* ~
      << "~", "/", "x" >>,                        \* ~/x
      << "~", "x" >>,                             \* ~x
      << "x", "~" >>,                             \* x~
      << "~", "/", "~" >>,                        \* ~/~
      << "a", "/", "~" >>,                        \* a/~
      << "~", "/", ".", "." >>,                   \* ~/..
      << "-", "x" >>,                             \* -x
      << "/", "-", "x" >>                         \* /-x
    }

WorkingDirs == { SLASH, << "/", "a" >>, << "/", "a", "/", "b" >> }
HomeDirs == { SLASH, S_home, << "/", "h", "/", "u" >> }

InitPath ==
    /\ InitServer
    /\ fn_args \in [ fn : {"decode_path"}, path : PathInputs, cwd : WorkingDirs,
                     home : HomeDirs ]
    /\ fn_result = << >>

\* decode_path(path, session) for a session with fn_args' cwd and home
ResolvePath ==
    /\ fn_args.fn = "decode_path"
    /\ fn_result = << >>
    /\ fn_result' = [ r |-> decode_path(fn_args.path, fn_args.cwd, fn_args.home),
                      again |-> << >> ]
    /\ UNCHANGED << server_vars, session_list, session, task, del_index, ctrl_open,
                    reply, filesystem, last_mutation, port_vars, fn_args, time_vars,
                    last_active >>

\* decode_path applied to the result: by the same session, and by a session
\* whose working directory is the result
ResolveAgain ==
    /\ fn_args.fn = "decode_path"
    /\ fn_result # << >>
    /\ fn_result.again = << >>
    /\ fn_result' = [fn_result EXCEPT !.again =
                        << decode_path(fn_result.r, fn_args.cwd, fn_args.home),
                           decode_path(fn_result.r, fn_result.r, fn_args.home) >>]
    /\ UNCHANGED << server_vars, session_list, session, task, del_index, ctrl_open,
                    reply, filesystem, last_mutation, port_vars, fn_args, time_vars,
                    last_active >>

NextPath == ResolvePath \/ ResolveAgain

SpecPath == InitPath /\ [][NextPath]_vars

(***************************************************************************)
(* SpecAccess: Session.has_write_access applied to identities, home        *)
(* directories and paths of every kind it distinguishes.                   *)
(***************************************************************************)
AccessIds == { RootUid, WheelGid, 1000, NobodyId, NobodyId + 1 }
AccessHomes == { << >>, SLASH, S_home }
AccessPaths == { << >>, SLASH, S_home, P_home_x, P_homex, P_etc_x, P_up_etc }

InitAccess ==
    /\ InitServer
    /\ fn_args \in [ fn : {"has_write_access"}, uid : AccessIds, gid : AccessIds,
                     home : AccessHomes, path : AccessPaths ]
    /\ fn_result = << >>

\* a session with fn_args' identity and home is asked about fn_args' path
CallHasWriteAccess ==
    /\ fn_args.fn = "has_write_access"
    /\ fn_result = << >>
    /\ fn_result' = << has_write_access(fn_args.uid, fn_args.gid, fn_args.home,
                                        fn_args.path) >>
    /\ UNCHANGED << server_vars, session_list, session, task, del_index, ctrl_open,
                    reply, filesystem, last_mutation, port_vars, fn_args, time_vars, last_active >>

SpecAccess == InitAccess /\ [][CallHasWriteAccess]_vars

(***************************************************************************)
(* SpecHash: a password entry is created for a cleartext and a salt, the   *)
(* stored digest is or is not altered in one character, and the cleartext  *)
(* is verified against the entry.                                          *)
(***************************************************************************)
MaxSuffix == 2          \* characters after the 14-character start of a password

HashChars == { "p", "$", NUL, EACUTE }

\* every string over HashChars of at most n characters
RECURSIVE StringsUpTo(_)
StringsUpTo(n) ==
    IF n = 0 THEN { << >> }
    ELSE StringsUpTo(n - 1)
         \cup { Append(w, c) : w \in { v \in StringsUpTo(n - 1) : Len(v) = n - 1 },
                               c \in HashChars }

\* cleartexts that end before, at and after the first block boundary
HashPasswords ==
    StringsUpTo(1) \cup { Repeat("q", BlockSize - MaxSuffix) \o w : w \in StringsUpTo(MaxSuffix) }

\* salts as generate_salt(16) draws them
HashSalts == { Repeat("s", SaltLength), Repeat(".", SaltLength),
               Repeat("s", SaltLength - 1) \o << "/" >> }

\* characters a stored digest's character is replaced by
TamperChars == { "A", "z", "$" }

InitHash ==
    /\ InitServer
    /\ fn_args \in [ fn : {"hash"}, salt : HashSalts, cleartext : HashPasswords ]
    /\ fn_result = << >>

\* SHA256AES.create_passwd_entry(cleartext), generate_salt having drawn salt
CreateEntry ==
    /\ fn_args.fn \in {"hash", "verify"}
    /\ fn_result = << >>
    /\ fn_result' = [ entry |-> create_passwd_entry(fn_args.salt, fn_args.cleartext),
                      tampered |-> FALSE, verdict |-> "" ]
    /\ UNCHANGED << server_vars, session_list, session, task, del_index, ctrl_open,
                    reply, filesystem, last_mutation, port_vars, fn_args, time_vars, last_active >>

\* where the digest starts in $5a$<salt>$<digest>
DigestStart(entry) == Len(entry) - Len(Split(entry, "$")[4]) + 1

\* the stored entry comes to differ from the created one in character i of its digest
TamperDigest(i, c) ==
    /\ fn_args.fn = "hash"
    /\ fn_result # << >>
    /\ ~fn_result.tampered /\ fn_result.verdict = ""
    /\ i \in DigestStart(fn_result.entry)..Len(fn_result.entry)
    /\ fn_result.entry[i] # c
    /\ fn_result' = [fn_result EXCEPT !.entry = [@ EXCEPT ![i] = c], !.tampered = TRUE]
    /\ UNCHANGED << server_vars, session_list, session, task, del_index, ctrl_open,
                    reply, filesystem, last_mutation, port_vars, fn_args, time_vars, last_active >>

\* SHA256AES.verify_passwd_entry(entry, cleartext)
VerifyEntry ==
    /\ fn_args.fn = "hash"
    /\ fn_result # << >>
    /\ fn_result.verdict = ""
    /\ fn_result' = [fn_result EXCEPT
                        !.verdict = verify_passwd_entry(fn_result.entry, fn_args.cleartext)]
    /\ UNCHANGED << server_vars, session_list, session, task, del_index, ctrl_open,
                    reply, filesystem, last_mutation, port_vars, fn_args, time_vars, last_active >>

MaxEntryLen == 150      \* no entry is longer

NextHash ==
    \/ CreateEntry
    \/ \E i \in 1..MaxEntryLen, c \in TamperChars : TamperDigest(i, c)
    \/ VerifyEntry

SpecHash == InitHash /\ [][NextHash]_vars

(***************************************************************************)
(* SpecVerify: a password entry is created for one cleartext and another   *)
(* cleartext, the same or not, is verified against it.                     *)
(***************************************************************************)
VerifyPasswords == StringsUpTo(2)

InitVerify ==
    /\ InitServer
    /\ fn_args \in [ fn : {"verify"}, salt : {Repeat("s", SaltLength)},
                      cleartext : VerifyPasswords, other : VerifyPasswords ]
    /\ fn_result = << >>

\* SHA256AES.verify_passwd_entry(entry, other)
VerifyOther ==
    /\ fn_args.fn = "verify"
    /\ fn_result # << >>
    /\ fn_result.verdict = ""
    /\ fn_result' = [fn_result EXCEPT
                        !.verdict = verify_passwd_entry(fn_result.entry, fn_args.other)]
    /\ UNCHANGED << server_vars, session_list, session, task, del_index, ctrl_open,
                    reply, filesystem, last_mutation, port_vars, fn_args, time_vars, last_active >>

NextVerify ==
    \/ CreateEntry
    \/ VerifyOther

SpecVerify == InitVerify /\ [][NextVerify]_vars

(***************************************************************************)
(* Claims about the login commands.                                        *)
(***************************************************************************)
InRegistry(s) == \E i \in 1..Len(session_list) : session_list[i] = s

Fields(k) == Split(credentials[k], ":")

C5_LoginAdoptsRecord ==
    \A s \in Slots :
        (task[s] = "loop" /\ reply[s].verb = "PASS" /\ reply[s].code = 230) =>
            LET f == Fields(reply[s].cred)
            IN  /\ session[s].uid = ParseInt(f[3])
                /\ session[s].gid = ParseInt(f[4])
                /\ session[s].home_dir = f[6]
                /\ session[s].working_dir =
                      IF f[6] # << >> /\ OsPath(f[6]) \in DOMAIN filesystem
                      THEN f[6] ELSE SLASH

\* a login through the record whose home directory /n does not exist
C5_Witness ==
    \E s \in Slots :
        /\ task[s] = "loop" /\ reply[s].verb = "PASS" /\ reply[s].code = 230
        /\ session[s].home_dir = << "/", "n" >>
        /\ session[s].working_dir = SLASH

\* C6: every PASS of a session that gave a username, if it does not log the
\* session in, has one and the same outcome whatever the cause (no record for
\* the username, or a wrong password): 1000 ms pass, then the 430 line is
\* written and the session is ended.
C6_UniformFailure ==
    [][ \A s \in Slots : \A pw \in LoginPasswords :
          (session[s].username # None /\ Passwd(s, pw) /\ task'[s] # "loop") =>
              /\ reply'[s].verb = "PASS"
              /\ reply'[s].code = 430
              /\ reply'[s].msg = "Invalid username or password."
              /\ reply'[s].slept = ThrottleMs
              /\ task'[s] = "deleting" ]_vars

\* C7: a PASS that does not log the session in (no record for the username,
\* an invalid record, a wrong password) ends the command loop and leaves the
\* session's uid, gid, home directory and working directory as they were;
\* and when the connection task of a session whose PASS failed is over, the
\* session is out of the registry and its control channel is closed.
C7_FailedPassDropsSession ==
    /\ [][ \A s \in Slots : \A pw \in LoginPasswords :
              ( /\ session[s].username # None
                /\ Passwd(s, pw)
                /\ ~(reply'[s].verb = "PASS" /\ reply'[s].code = 230) )
              => /\ task'[s] = "deleting"
                 /\ session'[s].uid = session[s].uid
                 /\ session'[s].gid = session[s].gid
                 /\ session'[s].home_dir = session[s].home_dir
                 /\ session'[s].working_dir = session[s].working_dir ]_vars
    /\ [](\A s \in Slots :
            (reply[s].verb = "PASS" /\ reply[s].code = 430) =>
                /\ task[s] \in {"deleting", "done"}
                /\ task[s] = "done" => (~InRegistry(s) /\ ~ctrl_open[s]))

\* C8: the record PASS checks the password against is the first record, in
\* load order, whose username field equals the session's username.
C8_FirstRecordOfThatUsername ==
    \A s \in Slots :
        (task[s] # "done" /\ reply[s].verb = "PASS" /\ reply[s].cred # 0) =>
            LET k == reply[s].cred
            IN  /\ Fields(k)[1] = session[s].username
                /\ \A j \in 1..(k - 1) : Fields(j)[1] # session[s].username

(***************************************************************************)
(* Claims about the session registry.                                      *)
(***************************************************************************)
\* the registered sessions whose client address, or whose username, is v
RegisteredWith(field, v) ==
    SelectSeq(session_list, LAMBDA x : IF field = "client_ip"
                                       THEN session[x].client_ip = v
                                       ELSE session[x].username = v)

\* C11: find_session(v) returns the registered sessions that match v, in
\* insertion order: those whose client address is v when v is a client
\* address, those whose username is v when v is a username, whatever username
\* a session carries; and it leaves the registry and the sessions as they were.
C11_FindSessionAllMatches ==
    [][ \A v \in SearchValues :
          FindSessionCall(v) =>
              /\ fn_result' = RegisteredWith(IF v \in ClientIPs THEN "client_ip"
                                                               ELSE "username", v)
              /\ session_list' = session_list
              /\ session' = session ]_vars

\* C12: a control connection that arrives while more sessions are registered
\* than the listener admits, or from an address that already has a registered
\* session, is answered 421 "Too many connections." and closed at once, and
\* the registry and the sessions stay as they were.
C12_RefusedAtAccept ==
    [][ \A s \in AcceptSlots : \A ip \in { AddressOf(s), AddressOf(1) } :
          ( /\ Accept(s, ip)
            /\ \/ Len(session_list) > MaxConnections
               \/ RegisteredWith("client_ip", ip) # << >> )
          => /\ reply'[s].code = 421
             /\ reply'[s].msg = "Too many connections."
             /\ ~ctrl_open'[s]
             /\ session_list' = session_list
             /\ session' = session ]_vars

\* C34: the registry never holds more than eleven sessions, and no two
\* registered sessions have the same client address.
C34_RegistryBounded ==
    /\ Len(session_list) <= MaxConnections + 1
    /\ \A i, j \in 1..Len(session_list) :
          i # j => session[session_list[i]].client_ip # session[session_list[j]].client_ip

\* eleven sessions are registered and the twelfth connection was refused
C34_Witness ==
    /\ Len(session_list) = MaxConnections + 1
    /\ \E s \in AcceptSlots : reply[s].verb = "CONNECT" /\ reply[s].code = 421

\* C13: an empty line read from the control channel, and a line that is not
\* valid UTF-8, are handled as QUIT is: the turn of the command loop that
\* reads it is the step of the quit handler (221 written, loop ended, the
\* session on its way out of the registry).
C13_ImplicitQuit ==
    [][ \A s \in Slots, checked \in BOOLEAN :
          \A b \in { << >>, CRLF, << BADBYTE >> \o CRLF, S_QUIT \o << BADBYTE >> \o CRLF } :
              Request(s, b, checked) => Quit(s) ]_vars

\* the connection task of s is over after its command loop ended
LoopEndedAndTaskOver(s) ==
    /\ task[s] \in {"done", "crashed"}
    /\ ~(reply[s].verb = "CONNECT" /\ reply[s].code = 421)

AllClosed(rec, open) == ~open /\ ~rec.data /\ rec.listener = 0

\* C14: once the command loop of a session has ended (QUIT, or a read error
\* on the control channel) and its connection task is over, the control
\* channel is closed, data reader, data writer and passive listener are
\* closed and cleared, and the session is out of the registry; and a session
\* leaves the registry only with all its channels closed.
C14_TeardownOnLoopEnd ==
    /\ [](\A s \in Slots :
            LoopEndedAndTaskOver(s) =>
                (AllClosed(session[s], ctrl_open[s]) /\ ~InRegistry(s)))
    /\ [][ \A s \in Slots :
              (InRegistry(s) /\ ~InRegistry(s)') =>
                  AllClosed(session'[s], ctrl_open'[s]) ]_vars

\* C33: delete_session(s) removes s and only s from the registry and does
\* not fail, also when another delete_session ran while it was suspended
\* closing the passive listener of s.
C33_DeleteRemovesOnlyThatSession ==
    [][ \A s \in Slots :
          ( /\ task[s] = "deleting" /\ del_index[s] # 0
            /\ session[s].listener # 0
            /\ task'[s] # task[s] )
          => /\ task'[s] = "done"
             /\ session_list' = SelectSeq(session_list, LAMBDA x : x # s) ]_vars

\* C16: at a sweep of the reaper, a session whose idle time exceeds the idle
\* timeout of T minutes (61 seconds with T = 1) is evicted: the sweep that
\* visits it hands it to delete_session; and the eviction closes its
\* channels and leaves no session of its address to be found.
C16_StaleSessionEvicted ==
    /\ [][ ( /\ reaper.pos \in 1..Len(session_list)
             /\ clock - last_active[session_list[reaper.pos]]
                    > reaper.timeout * SweepSeconds
             /\ KickStaleStep )
           => reaper'.victim = session_list[reaper.pos] ]_vars
    /\ [][ KickStaleDelete =>
              /\ AllClosed(session'[reaper.victim], ctrl_open'[reaper.victim])
              /\ find_session(session_list', session',
                              session[reaper.victim].client_ip) = << >> ]_vars

(***************************************************************************)
(* Claims about the data channel.                                          *)
(***************************************************************************)
Resolved(s, param) == decode_path(param, session[s].working_dir, session[s].home_dir)

\* passive mode is negotiated and no data connection has arrived
AwaitingData(s) == session[s].listener # 0 /\ ~session[s].data

\* the step waited 200 ms once and answered 426 with no 150 before it, and
\* the session goes on as it was
Aborted426(s, verb) ==
    /\ reply'[s].verb = verb
    /\ reply'[s].code = 426
    /\ reply'[s].slept = DataWaitMs
    /\ reply'[s].preliminary = 0
    /\ task'[s] = "loop"
    /\ session'[s] = session[s]

\* LIST, NLST and RETR of a session that awaits its data connection, which
\* does not arrive during the command
ReadersAbort(s) ==
    /\ \A param \in ListParams, sent \in BOOLEAN :
          /\ (reply'[s].verb = "LIST" /\ IsDir(filesystem, Resolved(s, param))
                 /\ List(s, param, FALSE, sent))
                => Aborted426(s, "LIST")
          /\ (reply'[s].verb = "NLST" /\ IsDir(filesystem, Resolved(s, param))
                 /\ Nlst(s, param, FALSE, sent))
                => Aborted426(s, "NLST")
    /\ \A param \in RetrParams, sent \in BOOLEAN :
          (reply'[s].verb = "RETR" /\ ~Missing(param)
             /\ Exists(filesystem, Resolved(s, param))
             /\ Retr(s, param, FALSE, sent))
                => Aborted426(s, "RETR")

\* C15 as stated: with passive mode negotiated and no data connection, LIST,
\* and likewise NLST, RETR and STOR on an existing path, waits 200 ms once,
\* re-checks, answers 426 with no 150 before it, and the session continues.
C15_Original_AbortAfterOneWait ==
    [][ \A s \in Slots : AwaitingData(s) =>
          /\ ReadersAbort(s)
          /\ \A param \in StorDataParams, written \in BOOLEAN :
                (reply'[s].verb = "STOR" /\ ~Missing(param)
                   /\ Exists(filesystem, Resolved(s, param))
                   /\ Stor(s, param, FALSE, written))
                      => Aborted426(s, "STOR") ]_vars

\* C15 as amended: the same for LIST and NLST of a directory that can be
\* read and RETR of an existing path, and for STOR when its parameter passes
\* the write-access check, whether or not the path exists; a STOR that fails
\* the check is answered 550 without any wait.
C15_AbortAfterOneWait ==
    [][ \A s \in Slots : AwaitingData(s) =>
          /\ ReadersAbort(s)
          /\ \A param \in StorDataParams, written \in BOOLEAN :
                (reply'[s].verb = "STOR" /\ ~Missing(param)
                   /\ Stor(s, param, FALSE, written)) =>
                    IF has_write_access(session[s].uid, session[s].gid,
                                        session[s].home_dir, param)
                    THEN Aborted426(s, "STOR")
                    ELSE /\ reply'[s].verb = "STOR" /\ reply'[s].code = 550
                         /\ reply'[s].slept = 0 ]_vars

\* a STOR and a LIST answered 426 while the session awaits its data connection
C15_Witness ==
    \E s \in Slots :
        /\ AwaitingData(s) /\ task[s] = "loop"
        /\ reply[s].verb \in {"STOR", "LIST"}
        /\ reply[s].code = 426 /\ reply[s].slept = DataWaitMs

(***************************************************************************)
(* Claims about write access.                                              *)
(***************************************************************************)
\* path is home itself or lies beneath it
InsideHome(home, path) ==
    \/ path = home
    \/ StartsWith(path, IF EndsWith(home, "/") THEN home ELSE home \o << "/" >>)

Unprivileged(uid, gid) ==
    /\ uid # RootUid /\ gid # WheelGid
    /\ uid < NobodyId /\ gid < NobodyId

\* C1: whatever MKD, RMD, DELE or STOR a session that is neither privileged
\* (uid 0, gid 10) nor a sentinel (uid or gid 65534 and up) gets carried out
\* creates or removes an entry inside the session's home directory.
C1_MutationsInsideHome ==
    (last_mutation.op # "" /\ Unprivileged(last_mutation.uid, last_mutation.gid))
        => InsideHome(last_mutation.home, last_mutation.path)

\* C3: MKD sent by a session that is not privileged (uid 0, gid 10), with a
\* path that does not resolve to the home directory or beneath it, is
\* answered 550, creates no directory and leaves the session in its loop.
C3_MkdOutsideHomeRefused ==
    [][ \A s \in Slots, param \in MkdParams :
          ( /\ ~Missing(param)
            /\ session[s].uid # RootUid /\ session[s].gid # WheelGid
            /\ ~InsideHome(session[s].home_dir,
                           decode_path(param, session[s].working_dir, session[s].home_dir))
            /\ Mkd(s, param) )
          => /\ reply'[s].verb = "MKD" /\ reply'[s].code = 550
             /\ filesystem' = filesystem
             /\ task'[s] = "loop" ]_vars

\* the session carries the identity it was constructed with, which is also
\* the one add_credential gives a two-field record
SentinelIdentity(rec) == rec.uid = NobodyId /\ rec.gid = NobodyId

\* C35: every MKD, RMD, DELE and STOR with a non-empty parameter that a
\* session sends while its identity is uid and gid 65534, before any login or
\* after a login through a two-field record, is answered 550 and leaves the
\* file system as it is.
C35_SentinelNeverMutates ==
    [][ \A s \in Slots, param \in GuestParams :
          ( /\ SentinelIdentity(session[s])
            /\ reply'[s].verb \in {"MKD", "RMD", "DELE", "STOR"}
            /\ \/ Mkd(s, param)
               \/ Rmd(s, param)
               \/ Dele(s, param)
               \/ \E written \in BOOLEAN : Stor(s, param, FALSE, written) )
          => /\ reply'[s].code = 550
             /\ filesystem' = filesystem ]_vars

\* g, logged in through its two-field record, was refused a STOR
C35_Witness ==
    \E s \in Slots :
        /\ InRegistry(s)
        /\ session[s].username = << "g" >> /\ session[s].home_dir = << >>
        /\ SentinelIdentity(session[s])
        /\ reply[s].verb = "STOR" /\ reply[s].code = 550

\* the identity fields of rec are those of the credential string cred
IdentityFrom(rec, cred) ==
    /\ Count(cred, ":") = 6
    /\ rec.uid = ParseInt(Split(cred, ":")[3])
    /\ rec.gid = ParseInt(Split(cred, ":")[4])
    /\ rec.home_dir = Split(cred, ":")[6]

\* C36: USER leaves uid, gid, home directory and working directory of the
\* session as they are, and a session that carries an identity other than
\* the one it was constructed with carries the identity of the record that
\* its username selects.
C36_UserChangesUsernameOnly ==
    /\ [][ \A s \in Slots, u \in LoginUsernames :
              User(s, u) =>
                  /\ session'[s].uid = session[s].uid
                  /\ session'[s].gid = session[s].gid
                  /\ session'[s].home_dir = session[s].home_dir
                  /\ session'[s].working_dir = session[s].working_dir ]_vars
    /\ [](\A s \in Slots :
            (InRegistry(s) /\ ~SentinelIdentity(session[s])) =>
                /\ FindCredential(credentials, Username(s)) # 0
                /\ IdentityFrom(session[s],
                                credentials[FindCredential(credentials, Username(s))]))

\* the reply is the refusal of the access check
Denied(r) == r.code = 550 /\ r.msg = "No access."

\* has_write_access of session s on what its parameter resolves to
AccessResolved(s, param) ==
    has_write_access(session[s].uid, session[s].gid, session[s].home_dir,
                     decode_path(param, session[s].working_dir, session[s].home_dir))

\* C24: MKD, RMD, DELE and STOR with a parameter are refused with "No
\* access." exactly when has_write_access is false on the resolved absolute
\* path, decode_path of the parameter under the session's working directory
\* and home.
C24_AccessOnResolvedPath ==
    [][\A s \in Slots :
          /\ \A param \in MkdParams \ {None} :
                (reply'[s].verb = "MKD" /\ Mkd(s, param)) =>
                    (Denied(reply'[s]) <=> ~AccessResolved(s, param))
          /\ \A param \in RmdParams \ {None} :
                (reply'[s].verb = "RMD" /\ Rmd(s, param)) =>
                    (Denied(reply'[s]) <=> ~AccessResolved(s, param))
          /\ \A param \in DeleParams \ {None} :
                (reply'[s].verb = "DELE" /\ Dele(s, param)) =>
                    (Denied(reply'[s]) <=> ~AccessResolved(s, param))
          /\ \A param \in StorParams \ {None} : \A written \in BOOLEAN :
                (reply'[s].verb = "STOR" /\ Stor(s, param, FALSE, written)) =>
                    (Denied(reply'[s]) <=> ~AccessResolved(s, param))]_vars

\* C30: when a sweep of the reaper ends, no session is left in the registry
\* whose idle time is above the threshold, wherever in the registry the
\* stale sessions stood.  (Stated for the sessions kick_stale itself counts
\* as stale, whole idle minutes above the timeout, which are among those
\* whose idle time is above it.)
C30_SweepEvictsEveryStaleSession ==
    [][ ( /\ reaper.pos > Len(session_list)
          /\ KickStaleStep )
        => \A k \in 1..Len(session_list) :
              ~(idle_minutes(clock, last_active[session_list[k]]) > reaper.timeout) ]_vars

(***************************************************************************)
(* Claims about a session that is torn down from outside its own task.     *)
(***************************************************************************)
\* the session of s was removed and its control channel closed while its
\* task awaits a read
TornDownOutside(s) == task[s] = "loop" /\ ~ctrl_open[s] /\ ~InRegistry(s)

\* C32: a connection task whose session was evicted or kicked while it
\* awaited a read ends its loop at its next step, without a command other
\* than the sign-off being served, and the delete_session it then runs
\* finds no entry and leaves the registry as it is.
C32_OutsideTeardownEndsLoop ==
    [][ \A s \in Slots :
          /\ ( TornDownOutside(s) /\ (task'[s] # task[s] \/ reply'[s] # reply[s]) )
                => /\ task'[s] = "deleting"
                   /\ del_index'[s] = 0
                   /\ reply'[s] = reply[s] \/ reply'[s].verb = "QUIT"
                   /\ session_list' = session_list
          /\ ( task[s] = "deleting" /\ del_index[s] = 0 /\ ~ctrl_open[s]
                /\ task'[s] # task[s] )
                => /\ task'[s] = "done"
                   /\ session_list' = session_list ]_vars

\* root kicked the other session, whose task has ended; root is still registered
C32_Witness ==
    \E s \in Slots :
        /\ s # FirstSlot
        /\ task[s] = "done" /\ ~ctrl_open[s]
        /\ reply[FirstSlot].code = 211
        /\ session_list = << FirstSlot >>

\* C40: the reaper is never ended by an error raised while it evicts a
\* session, whatever other teardown runs meanwhile, and the session that
\* sends nothing is in the end out of the registry with its channels closed.
C40_ReaperKeepsSweeping ==
    /\ [](reaper.pos # -1)
    /\ [](InRegistry(IdleSlot) =>
            <>(~InRegistry(IdleSlot)
               /\ AllClosed(session[IdleSlot], ctrl_open[IdleSlot])))

(***************************************************************************)
(* Claims about what a transfer leaves behind.                             *)
(***************************************************************************)
\* the reply ends a command that got as far as its data channel: 226, 426,
\* or anything after the 150 line, which is itself the last line when an
\* exception ended the transfer
TransferStage(r) == r.code \in {226, 426, 150} \/ r.preliminary = 150

\* the session holds no data reader, writer or listener
NoDataHandles(rec) == ~rec.data /\ rec.listener = 0

\* C26: after a LIST, NLST, RETR or STOR that reached the transfer stage,
\* however it ended, the session holds no data reader, no data writer and no
\* passive listener.
C26_TransferLeavesNoHandles ==
    [][\A s \in Slots : \A arrives, done \in BOOLEAN :
          /\ \A param \in ListParams :
                (reply'[s].verb = "LIST" /\ TransferStage(reply'[s])
                    /\ List(s, param, arrives, done)) => NoDataHandles(session'[s])
          /\ \A param \in ListParams :
                (reply'[s].verb = "NLST" /\ TransferStage(reply'[s])
                    /\ Nlst(s, param, arrives, done)) => NoDataHandles(session'[s])
          /\ \A param \in RetrParams :
                (reply'[s].verb = "RETR" /\ TransferStage(reply'[s])
                    /\ Retr(s, param, arrives, done)) => NoDataHandles(session'[s])
          /\ \A param \in StorDataParams :
                (reply'[s].verb = "STOR" /\ TransferStage(reply'[s])
                    /\ Stor(s, param, arrives, done)) => NoDataHandles(session'[s])]_vars

(***************************************************************************)
(* Claims about the passive listeners and the data connections.            *)
(***************************************************************************)
\* the sessions whose data_listener is bound to port
ListenerOwners(port) == { s \in Slots : session[s].listener = port }

\* C27: every open passive listener is the data_listener of a session, and a
\* session has one at most: no listener is open that no session refers to.
C27_NoOrphanListener ==
    \A port \in BagToSet(listening) :
        CopiesIn(port, listening) <= Cardinality(ListenerOwners(port))

\* C37: the port on which PASV or EPSV starts its listener is not one that
\* a listener started earlier is still bound to, so that no two open
\* listeners share a port.
C37_ListenersOnDistinctPorts ==
    /\ [][ Len(issued') > Len(issued) =>
              ~BagIn(issued'[Len(issued')], listening) ]_vars
    /\ [](\A port \in BagToSet(listening) : CopiesIn(port, listening) <= 1)

\* C38: when close_data_connection returns, the session has no data reader,
\* no data writer and no passive listener, also when on_data_connect ran
\* for the session while close_data_connection was suspended.
C38_CloseDataLeavesNoHandles ==
    [][ \A s \in Slots :
          ( \/ CloseDataConnectionReturns(s)
            \/ (CloseDataConnectionCalled(s) /\ session[s].listener = 0) )
          => NoDataHandles(session'[s]) ]_vars

\* C28: a connection that comes in on a passive listener becomes the data
\* reader and writer of a session exactly when one registered session, and
\* only one, has the peer's address; otherwise no session's data channel
\* changes and the connection is closed.
C28_AttachOnSingleMatch ==
    [][\A port \in BagToSet(listening) : \A ip \in PeerIPs : \A collected \in BOOLEAN :
          on_data_connect(port, ip, collected) =>
              LET matches == RegisteredWith("client_ip", ip)
              IN  IF Len(matches) = 1
                  THEN /\ session'[matches[1]].data
                       /\ inbound'.session = matches[1]
                       /\ \A s \in Slots \ {matches[1]} : session'[s] = session[s]
                  ELSE /\ session' = session
                       /\ ~inbound'.open]_vars

\* C29: a connection that comes in on the listener a session opened becomes
\* the data channel of that session and of no other; a session without a
\* listener of its own gets no data channel from a passive accept.
C29_AttachToListenerOwner ==
    [][\A port \in BagToSet(listening) : \A ip \in PeerIPs : \A collected \in BOOLEAN :
          on_data_connect(port, ip, collected) =>
              \A s \in Slots :
                  (session'[s].data /\ ~session[s].data) => session[s].listener = port]_vars

(***************************************************************************)
(* Claims about the port pool.                                             *)
(***************************************************************************)
\* the pool as __init__ builds it
PoolAtConstruction == [i \in 1..PoolSize |-> PasvPortBase + i - 1]

Ports(pool) == { pool[i] : i \in 1..Len(pool) }

\* C10: get_pasv_port issues the ports round robin: with N ports in the pool,
\* the i-th and the (i+N)-th issued ports are equal, no port is issued twice
\* within fewer than N consecutive allocations (any two allocations less than
\* N apart differ), and the pool always holds the ports it was built with.
C10_RoundRobin ==
    LET N == Len(PoolAtConstruction)
    IN  /\ \A i \in 1..Len(issued) : (i + N <= Len(issued)) => issued[i] = issued[i + N]
        /\ \A i, j \in 1..Len(issued) : (i < j /\ j - i < N) => issued[i] # issued[j]
        /\ Ports(pasv_port_pool) = Ports(PoolAtConstruction)
        /\ Len(pasv_port_pool) = N

C10_Witness ==
    /\ Len(issued) > 2 * Len(PoolAtConstruction)
    /\ issued[1] = issued[1 + Len(PoolAtConstruction)]

(***************************************************************************)
(* Claims about the command loop.                                          *)
(***************************************************************************)
\* C23: a session never has two command handlers under way, and a request
\* is read for it only when no handler of it is; handlers of different
\* sessions can be under way together.
C23_OneHandlerPerSession ==
    /\ [](\A s \in Slots : handlers[s] <= 1)
    /\ [][\A s \in Slots : handlers'[s] > handlers[s] => handlers[s] = 0]_vars

\* two sessions each have a handler suspended at the same time
C23_Witness ==
    \E s, u \in Slots : s # u /\ handlers[s] = 1 /\ handlers[u] = 1

\* C25: a command line with a verb that is not in the command table, or
\* with a verb of the table and a missing, empty or malformed parameter, is
\* answered with an error reply, and the session stays in the registry with
\* its command loop reading on.
C25_ProtocolErrorsNotFatal ==
    [][\A s \in Slots : \A b \in UnknownVerbLines \cup BadParamLines :
          Request(s, b, TRUE) =>
              /\ reply'[s].code >= 500
              /\ task'[s] = "loop"
              /\ \E i \in 1..Len(session_list') : session_list'[i] = s]_vars

(***************************************************************************)
(* Claims about SITE shutdown.                                             *)
(***************************************************************************)
\* the SITE parameters that name the shutdown command with a parameter other
\* than "help"
ShutdownRequests ==
    { p \in SiteParams \ {None} :
        /\ LowerStr(SplitWords(p)[1]) = S_shutdown
        /\ p # S_shutdown \o << SPACE >> \o S_help }

\* C21: SITE shutdown by a session that has neither uid 0 nor gid 10, with
\* any parameter other than "help", is answered 550 "Not authorized."; the
\* accepting-connections flag stays as it is, nothing is synced, halted or
\* rebooted, and the session's loop goes on.
C21_ShutdownNeedsPrivilege ==
    [][\A s \in ShutdownSlots : \A p \in ShutdownRequests :
          ( /\ reply'[s].verb = "SITE"
            /\ session[s].uid # RootUid /\ session[s].gid # WheelGid
            /\ Site(s, p) ) =>
              /\ reply'[s].code = 550 /\ reply'[s].msg = "Not authorized."
              /\ accepting_connections' = accepting_connections
              /\ machine' = machine
              /\ task'[s] = "loop"]_vars

\* a session without privilege has been refused, and nothing synced
C21_Witness ==
    \E s \in ShutdownSlots :
        /\ session[s].uid = NobodyId /\ session[s].gid = NobodyId
        /\ reply[s].verb = "SITE" /\ reply[s].code = 550
        /\ machine = MachineOn /\ accepting_connections = "True"
        /\ task[s] = "loop"

\* C22: once SITE shutdown without parameter has been obeyed, a client that
\* connects afterwards and is not logging in as root has no command served:
\* whatever it sends is answered 421 and its session ends.
C22_LateClientsRefused ==
    [][\A s \in LateSlots :
          ( /\ accepting_connections = "False"
            /\ task[s] = "loop"
            /\ reply'[s] # reply[s]
            /\ session'[s].username # S_root ) =>
              reply'[s].code = 421 /\ task'[s] = "deleting"]_vars

(***************************************************************************)
(* Claims about the credential list.                                       *)
(***************************************************************************)
\* C20: add_credential returns True for a two-field and for a seven-field
\* string and appends exactly one record, the two-field string with the
\* unprivileged identity and the no-login shell filled in; for any other
\* string it returns False and leaves the list unchanged.
C20_AddCredentialVerdict ==
    [][\A c \in CredStrings \cup {CredBad} :
          add_credential(c) =>
              IF Count(c, ":") = 6
              THEN fn_result' = << "True" >> /\ credentials' = Append(credentials, c)
              ELSE IF Count(c, ":") = 1
              THEN /\ fn_result' = << "True" >>
                   /\ credentials' = Append(credentials, c \o TwoFieldSuffix)
              ELSE fn_result' = << "False" >> /\ credentials' = credentials]_vars

(***************************************************************************)
(* Claims about path resolution.                                           *)
(***************************************************************************)
\* the components of a path, empty ones left out
Components(p) == SelectSeq(Split(p, "/"), LAMBDA c : c # << >>)

\* "/" followed by the components, "/" between them
Render(comps) == IF comps = << >> THEN SLASH ELSE SLASH \o Join(comps, SLASH)

\* no empty, "." or ".." component, a leading "/" and no trailing one
Normalized(p) ==
    /\ p = Render(Components(p))
    /\ \A k \in 1..Len(Components(p)) :
          Components(p)[k] \notin { << "." >>, << ".", "." >> }

\* what the components of a path make of the accumulated ones: "." and the
\* empty component nothing, ".." drops the last one if there is one
RECURSIVE Walked(_, _)
Walked(acc, comps) ==
    IF comps = << >> THEN acc
    ELSE IF Head(comps) \in { << >>, << "." >> } THEN Walked(acc, Tail(comps))
    ELSE IF Head(comps) = << ".", "." >>
    THEN Walked(IF acc = << >> THEN acc ELSE SubSeq(acc, 1, Len(acc) - 1), Tail(comps))
    ELSE Walked(Append(acc, Head(comps)), Tail(comps))

PathResolved == fn_args.fn = "decode_path" /\ fn_result # << >>

(***************************************************************************)
(* Claims about the working directory.                                     *)
(***************************************************************************)
\* C31: the working directory of every registered session is a normalized
\* absolute path, whatever record the session logged in through.
C31_WorkdirNormalized ==
    \A s \in Slots : InRegistry(s) => Normalized(session[s].working_dir)


\* C17: resolving the result of decode_path again, under the same working
\* directory and under the result as working directory, gives the result.
C17_ResolveIdempotent ==
    (PathResolved /\ fn_result.again # << >>) =>
        /\ fn_result.again[1] = fn_result.r
        /\ fn_result.again[2] = fn_result.r

\* a relative path with ".." resolved twice under a working directory below "/"
C17_Witness ==
    /\ PathResolved /\ fn_result.again # << >>
    /\ fn_args.path = << "x", "/", ".", ".", "/", "y" >>
    /\ fn_args.cwd = << "/", "a", "/", "b" >>
    /\ fn_result.again[1] = << "/", "a", "/", "b", "/", "y" >>

\* C18: for a path that does not start with "-", the result starts with "/",
\* has no empty, "." or ".." component and no trailing slash unless it is "/";
\* and for a path that does not start with "~" either it is what the path's
\* components make of the working directory's (of none, for an absolute
\* path), each ".." dropping the last accumulated component, or nothing at
\* the root.
C18_ResultNormalized ==
    (PathResolved /\ fn_args.path # None /\ ~StartsWith(fn_args.path, << "-" >>)) =>
        /\ Normalized(fn_result.r)
        /\ ~StartsWith(fn_args.path, << "~" >>) =>
              fn_result.r =
                  Render(Walked(IF StartsWith(fn_args.path, SLASH) THEN << >>
                                ELSE Components(fn_args.cwd),
                                Split(fn_args.path, "/")))

\* ".." resolved from /a/b gives /a
C18_Witness ==
    /\ PathResolved
    /\ fn_args.path = << ".", "." >>
    /\ fn_args.cwd = << "/", "a", "/", "b" >>
    /\ fn_result.r = << "/", "a" >>

\* C19: for a path that begins with "~", the result is the resolution of the
\* path with that leading "~" alone replaced by the home directory; a "~"
\* elsewhere in the path stays a character of its component.
C19_LeadingTildeOnly ==
    (PathResolved /\ fn_args.path # None /\ StartsWith(fn_args.path, << "~" >>)) =>
        fn_result.r = decode_path(fn_args.home \o Tail(fn_args.path),
                                  fn_args.cwd, fn_args.home)

(***************************************************************************)
(* Claims about has_write_access and the password hash.                    *)
(***************************************************************************)
\* C2: has_write_access is true for uid 0 or gid 10 whatever the path;
\* otherwise false when uid or gid is 65534 or more; otherwise true exactly
\* when the home directory is not empty and the path is the home directory
\* itself or a path beneath it.
C2_WriteAccessContained ==
    (fn_args.fn = "has_write_access" /\ fn_result # << >>) =>
        fn_result[1] =
            IF fn_args.uid = RootUid \/ fn_args.gid = WheelGid THEN TRUE
            ELSE IF fn_args.uid >= NobodyId \/ fn_args.gid >= NobodyId THEN FALSE
            ELSE fn_args.home # << >> /\ InsideHome(fn_args.home, fn_args.path)

\* C9: verifying a cleartext against the entry created for it answers True,
\* and against an entry whose digest differs from the created one in a single
\* character it answers False.
C9_HashRoundTrip ==
    (fn_args.fn = "hash" /\ fn_result # << >> /\ fn_result.verdict # "") =>
        fn_result.verdict = IF fn_result.tampered THEN "False" ELSE "True"

C9_Witness ==
    /\ fn_args.fn = "hash" /\ fn_result # << >>
    /\ Len(Utf8(fn_args.cleartext)) = BlockSize
    /\ ~fn_result.tampered
    /\ fn_result.verdict = "True"

\* C39: a cleartext verifies against the entry created for a cleartext only
\* when the two are equal.
C39_OnlyThePasswordVerifies ==
    (fn_args.fn = "verify" /\ fn_result # << >> /\ fn_result.verdict = "True") =>
        fn_args.other = fn_args.cleartext
====
